---- MODULE Spec2Model ----
(***************************************************************************)
(* A model of the solar-audio engine core: the transport (AudioGraph),     *)
(* the Recorder state machine, the per-buffer audio callback, the track    *)
(* mixing of the real-time and the offline path, and the mutexes the       *)
(* callback shares with the control thread.                                *)
(*                                                                         *)
(* Control-thread operations are serialized by the global graph mutex of   *)
(* the API layer; the audio callback runs on its own thread and is         *)
(* interleaved with them at the granularity of its accesses to shared      *)
(* state.  Sample values and gains are integers (exact arithmetic), and    *)
(* timeline positions are counted in samples.                              *)
(***************************************************************************)
EXTENDS Integers, Sequences, FiniteSets, TLC

VARIABLES
    state,              \* AudioGraph.state: transport state (AtomicU8)
    playhead_samples,   \* AudioGraph.playhead_samples (AtomicU64)
    stream_playing,     \* the cpal output stream is running (play) or paused
    capturing,          \* AudioInputManager is capturing
    clips,              \* AudioGraph.clips: the ids of the clips on the timeline
    next_clip_id,       \* AudioGraph.next_clip_id
    rec_state,          \* Recorder.state
    recorded_samples,   \* Recorder.recorded_samples (interleaved stereo)
    sample_counter,     \* Recorder.sample_counter (AtomicU64)
    count_in_bars,      \* Recorder.count_in_bars
    tempo,              \* Recorder.tempo (BPM)
    ctl_pc,             \* position of the control thread inside pause()/stop()
    cb_pc,              \* position of the audio callback
    cb_is_playing,      \* callback local: is_playing
    cb_frames,          \* callback local: frames (data.len() / 2)
    cb_frame_idx,       \* callback local: frame_idx
    pf_state,           \* process_frame local: current_state
    pf_idx,             \* process_frame local: sample_idx
    last,               \* the last stop or recording call and what it returned
    tracks,             \* TrackManager.tracks: track id -> Track
    effects,            \* EffectManager.effects: effect id -> effect type
    next_effect_id,     \* EffectManager.next_id
    rt_out,             \* the buffer the callback last mixed from the current
                        \* mixer settings (before the metronome is added)
    off_out,            \* the frames render_offline last returned for them
    ctl_lock,           \* the mutex a control-thread call is holding
    poisoned,           \* the mutexes a thread panicked while holding
    lk_pc,              \* callback: the phase it is in
    lk_step,            \* callback: the lock site of the phase it is at
    lk_frames,          \* callback local: frames
    lk_frame_idx,       \* callback local: frame_idx
    lk_playing,         \* callback local: is_playing
    lk_rec,             \* process_frame local: current_state
    lk_wait,            \* the mutex the callback is blocked on
    lk_count,           \* mutex -> acquisitions by the callback in this buffer
                        \* (empty before the first buffer)
    lk_written,         \* frames of the output buffer written in this call
    lk_panicked,        \* the callback has panicked
    fed,                \* the input pairs passed to process_frame while the
                        \* recorder was Recording, since start_recording
    rec_ret,            \* what the last direct call of the Recorder returned
    next_track_id,      \* TrackManager.next_id
    api_result,         \* "ok" or "err": what the last track or effect call
                        \* of the API returned
    voices,             \* TrackSynthesizer.voices of the synth of track 1
    cb_playhead,        \* callback local: the playhead read at its start
    metronome_enabled,  \* Recorder.metronome_enabled (AtomicBool)
    peaks,              \* Track.peak_left, peak_right of the tracks the
                        \* callback has metered: track id -> <<left, right>>
    out_buf,            \* the output buffer the callback last wrote, and the
                        \* metronome signal of each of its frames
    twin,               \* what the same callback would have written and
                        \* published with the metronome switched the other way
    midi_heap,          \* the Arc<MidiClip> allocations: address -> events
    midi_clips,         \* AudioGraph.midi_clips: the global MIDI clip store
    track_midi_clips,   \* Track.midi_clips of the tracks that hold MIDI clips
    midi_cb,            \* the callback's snapshots of the MIDI clips, and the
                        \* event lists it took and read in its buffer
    midi_call,          \* the MIDI clip call of the API in progress, and the
                        \* clip id when the last call returned was a sync
    fx_trace,           \* the last run of a track's FX chain on one frame:
                        \* the input and the output of every effect in it
    call_log,           \* the last logged call of the transport API: its
                        \* arguments, what it found, did and returned
    mutexes,            \* the owner of every mutex, and for each thread the
                        \* lock and unlock steps of the call it is in
    midi_rec            \* the fields of the MidiRecorder

vars == <<state, playhead_samples, stream_playing, capturing, clips, next_clip_id,
          rec_state, recorded_samples, sample_counter, count_in_bars, tempo,
          ctl_pc, cb_pc, cb_is_playing, cb_frames, cb_frame_idx, pf_state,
          pf_idx, last, tracks, effects, next_effect_id, rt_out, off_out,
          ctl_lock, poisoned, lk_pc, lk_step, lk_frames, lk_frame_idx,
          lk_playing, lk_rec, lk_wait, lk_count, lk_written, lk_panicked,
          fed, rec_ret, next_track_id, api_result, voices, cb_playhead,
          metronome_enabled, peaks, out_buf, twin, midi_heap, midi_clips,
          track_midi_clips, midi_cb, midi_call, fx_trace, call_log, mutexes,
          midi_rec>>

graph_vars == <<state, playhead_samples, stream_playing>>
clip_vars == <<clips, next_clip_id>>
recorder_vars == <<rec_state, recorded_samples, sample_counter, count_in_bars, tempo>>
cb_vars == <<cb_pc, cb_is_playing, cb_frames, cb_frame_idx, pf_state, pf_idx>>
mix_vars == <<tracks, effects, next_effect_id, rt_out, off_out>>
lock_vars == <<ctl_lock, poisoned, lk_pc, lk_step, lk_frames, lk_frame_idx,
               lk_playing, lk_rec, lk_wait, lk_count, lk_written, lk_panicked>>
probe_vars == <<fed, rec_ret>>
synth_vars == <<voices, cb_playhead>>
meter_vars == <<metronome_enabled, peaks, out_buf, twin>>
midi_vars == <<midi_heap, midi_clips, track_midi_clips, midi_cb, midi_call>>
ext_vars == <<meter_vars, midi_vars, fx_trace, call_log, mutexes, midi_rec>>
\* all but the variables of the metering, all but those of the MIDI clips,
\* all but the trace of the FX chain, all but the log of the last call
meter_rest == <<midi_vars, fx_trace, call_log, mutexes, midi_rec>>
midi_rest == <<meter_vars, fx_trace, call_log, mutexes, midi_rec>>
fx_trace_rest == <<meter_vars, midi_vars, call_log, mutexes, midi_rec>>
call_log_rest == <<meter_vars, midi_vars, fx_trace, mutexes, midi_rec>>
mutexes_rest == <<meter_vars, midi_vars, fx_trace, call_log, midi_rec>>
midi_rec_rest == <<meter_vars, midi_vars, fx_trace, call_log, mutexes>>
aux_vars == <<probe_vars, next_track_id, api_result, synth_vars, ext_vars>>

----------------------------------------------------------------------------
(* Bounds of the model *)

\* frames per second of the model's timeline (the engine runs at 48000)
SampleRate == 5
\* largest buffer the host asks for, in frames
MaxFrames == 2
\* the playhead is explored up to this sample
MaxPlayhead == 2
\* the recorder's sample counter is explored up to this value
MaxCounter == 5
\* frames the capture buffer may hold
MaxRecorded == 1
\* clips the timeline may hold
MaxClips == 1

(* Program constants *)
TimeSignature == 4
DefaultCountIn == 2
DefaultTempo == 120
MinTempo == 20
MaxTempo == 300

TransportStates == {"Stopped", "Playing", "Paused"}
RecordingStates == {"Idle", "CountingIn", "Recording"}
\* arguments the model passes to set_tempo and set_count_in_bars
TempoInputs == {DefaultTempo, 500}
CountInInputs == {0, 1}
\* the stereo pairs the input device may deliver
Inputs == {<<1, 2>>, <<3, 4>>}

----------------------------------------------------------------------------
(* Recorder *)

\* f64::NAN: a number no other f64 of the model takes stands for it
NaN == -1000000

\* f64::clamp: NaN is returned as it is
Clamp(x, lo, hi) ==
    IF x = NaN THEN NaN
    ELSE IF x < lo THEN lo ELSE IF x > hi THEN hi ELSE x

\* samples_per_beat = (60.0 / tempo * TARGET_SAMPLE_RATE) as u64: the cast
\* of NaN is 0
SamplesPerBeat(bpm) == IF bpm = NaN THEN 0 ELSE (60 * SampleRate) \div bpm
\* samples_per_bar = samples_per_beat * time_sig
SamplesPerBar(bpm) == SamplesPerBeat(bpm) * TimeSignature

\* (mutant) start_recording without the check of the state
Recorder_start_recording_unguarded ==
    [result |-> "ok",
     state |-> IF count_in_bars > 0 THEN "CountingIn" ELSE "Recording",
     samples |-> << >>, counter |-> 0]

\* Recorder::start_recording: the result and the recorder fields it leaves
Recorder_start_recording ==
    IF rec_state # "Idle"
    THEN [result |-> "err", state |-> rec_state,
          samples |-> recorded_samples, counter |-> sample_counter]
    ELSE [result |-> "ok",
          state |-> IF count_in_bars > 0 THEN "CountingIn" ELSE "Recording",
          samples |-> << >>, counter |-> 0]

\* Recorder::stop_recording: the result (an error, no clip, or the clip's
\* sample vector) and the recorder state it leaves
Recorder_stop_recording ==
    IF rec_state = "Idle"
    THEN [result |-> "none", state |-> rec_state, clip |-> << >>]
    ELSE IF recorded_samples = << >>
         THEN [result |-> "none", state |-> "Idle", clip |-> << >>]
         ELSE [result |-> "clip", state |-> "Idle", clip |-> recorded_samples]

\* Recorder::set_tempo
set_tempo(bpm) ==
    /\ ctl_pc = "idle"
    /\ UNCHANGED <<mix_vars, lock_vars, aux_vars>>
    /\ tempo' = Clamp(bpm, MinTempo, MaxTempo)
    /\ UNCHANGED last
    /\ UNCHANGED <<graph_vars, capturing, clip_vars, rec_state, recorded_samples,
                   sample_counter, count_in_bars, ctl_pc, cb_vars>>

\* Recorder::set_count_in_bars
set_count_in_bars(bars) ==
    /\ ctl_pc = "idle"
    /\ UNCHANGED <<mix_vars, lock_vars, aux_vars>>
    /\ count_in_bars' = bars
    /\ UNCHANGED last
    /\ UNCHANGED <<graph_vars, capturing, clip_vars, rec_state, recorded_samples,
                   sample_counter, tempo, ctl_pc, cb_vars>>

----------------------------------------------------------------------------
(* The per-track synthesizer *)

\* MAX_VOICES, the size of the voice array (16 in the engine)
MaxVoices == 3
\* the envelope times in samples: attack, decay and release seconds times
\* SAMPLE_RATE
AttackSamples == 1
DecaySamples == 1
ReleaseSamples == 2
\* the integer that stands for the envelope level 1.0, and the sustain level
LevelScale == 4
SustainLevel == 3

\* the notes the model plays
NoteInputs == {60, 61}

\* TrackVoice::new, with Envelope::new; since_off counts the process calls
\* since the last note-off of the voice (-1: none since its note-on)
NewVoice ==
    [note |-> 0, is_active |-> FALSE, state |-> "Idle", level |-> 0,
     time |-> 0, since_off |-> -1]

\* TrackSynthesizer::new
NewVoices == [i \in 1..MaxVoices |-> NewVoice]

\* Envelope::process: the level and the state after one sample (time is
\* kept at 0 in Sustain and Idle, where it is not read)
Envelope_process(v) ==
    LET stepped ==
          CASE v.state = "Idle" -> [v EXCEPT !.level = 0]
            [] v.state = "Attack" ->
                 IF (v.time * LevelScale) \div AttackSamples >= LevelScale
                 THEN [v EXCEPT !.level = LevelScale, !.state = "Decay",
                                !.time = 0]
                 ELSE [v EXCEPT !.level =
                                    (v.time * LevelScale) \div AttackSamples]
            [] v.state = "Decay" ->
                 IF LevelScale - (v.time * (LevelScale - SustainLevel))
                                     \div DecaySamples <= SustainLevel
                 THEN [v EXCEPT !.level = SustainLevel, !.state = "Sustain"]
                 ELSE [v EXCEPT !.level =
                          LevelScale - (v.time * (LevelScale - SustainLevel))
                                           \div DecaySamples]
            [] v.state = "Sustain" -> [v EXCEPT !.level = SustainLevel]
            [] OTHER ->
                 IF (v.level * (ReleaseSamples - v.time)) \div ReleaseSamples
                        <= 0
                 THEN [v EXCEPT !.level = 0, !.state = "Idle"]
                 ELSE [v EXCEPT !.level =
                          (v.level * (ReleaseSamples - v.time))
                              \div ReleaseSamples]
    IN  [stepped EXCEPT !.time = IF stepped.state \in {"Sustain", "Idle"}
                                THEN 0 ELSE @ + 1]

\* (mutant) TrackVoice::process that never retires the voice
TrackVoice_process_never_retires(v) ==
    LET counted == [v EXCEPT !.since_off = IF @ >= 0 THEN @ + 1 ELSE @]
    IN  Envelope_process(counted)

\* TrackVoice::process: a voice whose envelope is Idle is retired, any other
\* advances its envelope
TrackVoice_process(v) ==
    LET counted == [v EXCEPT !.since_off = IF @ >= 0 THEN @ + 1 ELSE @]
    IN  IF v.state = "Idle"
        THEN [v EXCEPT !.is_active = FALSE, !.since_off = -1]
        ELSE Envelope_process(counted)

\* TrackVoice::note_on, with Envelope::note_on: the level is kept
TrackVoice_note_on(v, note) ==
    [v EXCEPT !.note = note, !.is_active = TRUE, !.state = "Attack",
              !.time = 0, !.since_off = -1]

\* TrackVoice::note_off, with Envelope::note_off
TrackVoice_note_off(v) ==
    [v EXCEPT !.state = "Release", !.time = 0, !.since_off = 0]

\* (mutant) find_free_voice taking the last inactive voice
find_free_voice_last(vs) ==
    IF \E i \in DOMAIN vs : ~vs[i].is_active
    THEN CHOOSE i \in DOMAIN vs :
             /\ ~vs[i].is_active
             /\ \A j \in DOMAIN vs : ~vs[j].is_active => j <= i
    ELSE 1

\* TrackSynthesizer::find_free_voice: the index of the first inactive voice,
\* or of the first voice (index 0 of the array) when all are active
find_free_voice(vs) ==
    IF \E i \in DOMAIN vs : ~vs[i].is_active
    THEN CHOOSE i \in DOMAIN vs :
             /\ ~vs[i].is_active
             /\ \A j \in DOMAIN vs : ~vs[j].is_active => j >= i
    ELSE 1

\* TrackSynthesizer::note_on
TrackSynthesizer_note_on(vs, note) ==
    [vs EXCEPT ![find_free_voice(vs)] = TrackVoice_note_on(@, note)]

\* TrackSynthesizer::note_off: every active voice playing the note is released
TrackSynthesizer_note_off(vs, note) ==
    [i \in DOMAIN vs |->
        IF vs[i].is_active /\ vs[i].note = note
        THEN TrackVoice_note_off(vs[i]) ELSE vs[i]]

\* TrackSynthesizer::process_sample: every active voice is processed
TrackSynthesizer_process_sample(vs) ==
    [i \in DOMAIN vs |->
        IF vs[i].is_active THEN TrackVoice_process(vs[i]) ELSE vs[i]]

\* TrackSynthManager::all_notes_off_all_tracks: every voice is retired
all_notes_off_all_tracks(vs) ==
    [i \in DOMAIN vs |->
        [vs[i] EXCEPT !.is_active = FALSE, !.state = "Idle", !.level = 0,
                      !.time = 0, !.since_off = -1]]

----------------------------------------------------------------------------
(* AudioGraph transport *)

\* (mutant) play() without the check of the state
AudioGraph_play_restarts ==
    [state |-> "Playing", stream |-> TRUE, result |-> "ok", started |-> TRUE]

\* AudioGraph::play: the transport state and the stream state it leaves, its
\* result, and whether it called stream.play()
AudioGraph_play ==
    IF state = "Playing"
    THEN [state |-> state, stream |-> stream_playing, result |-> "ok",
          started |-> FALSE]
    ELSE [state |-> "Playing", stream |-> TRUE, result |-> "ok",
          started |-> TRUE]

\* transport_play
play ==
    /\ ctl_pc = "idle"
    /\ UNCHANGED <<mix_vars, lock_vars, aux_vars>>
    /\ state' = AudioGraph_play.state
    /\ stream_playing' = AudioGraph_play.stream
    /\ UNCHANGED last
    /\ UNCHANGED <<playhead_samples, capturing, clip_vars, recorder_vars, ctl_pc, cb_vars>>

\* transport_pause, up to the store of the state
pause_begin ==
    /\ ctl_pc = "idle"
    /\ UNCHANGED <<mix_vars, lock_vars, aux_vars>>
    /\ state' = "Paused"
    /\ ctl_pc' = "pause"
    /\ UNCHANGED <<playhead_samples, stream_playing, capturing, clip_vars,
                   recorder_vars, cb_vars, last>>

\* transport_pause, from stream.pause() to the return
pause_finish ==
    /\ ctl_pc = "pause"
    /\ UNCHANGED <<mix_vars, lock_vars, aux_vars>>
    /\ stream_playing' = FALSE
    /\ ctl_pc' = "idle"
    /\ UNCHANGED last
    /\ UNCHANGED <<state, playhead_samples, capturing, clip_vars, recorder_vars, cb_vars>>

\* transport_stop, up to the store of the state
stop_begin ==
    /\ ctl_pc = "idle"
    /\ UNCHANGED <<mix_vars, lock_vars, aux_vars>>
    /\ state' = "Stopped"
    /\ ctl_pc' = "stop"
    /\ UNCHANGED <<playhead_samples, stream_playing, capturing, clip_vars,
                   recorder_vars, cb_vars, last>>

\* (mutant) stop() without the swap of the playhead
stop_finish_keeps_playhead ==
    /\ ctl_pc = "stop"
    /\ UNCHANGED <<mix_vars, lock_vars, probe_vars, ext_vars, next_track_id, api_result,
                   cb_playhead>>
    /\ stream_playing' = FALSE
    /\ voices' = all_notes_off_all_tracks(voices)
    /\ sample_counter' = 0
    /\ ctl_pc' = "idle"
    /\ last' = [op |-> "stop", result |-> "ok", old |-> playhead_samples, clip |-> << >>]
    /\ UNCHANGED <<state, playhead_samples, capturing, clip_vars, rec_state,
                   recorded_samples, count_in_bars, tempo, cb_vars>>

\* transport_stop, from stream.pause() to the return: all notes off, the
\* playhead swap and Recorder::reset_metronome
stop_finish ==
    /\ ctl_pc = "stop"
    /\ UNCHANGED <<mix_vars, lock_vars, probe_vars, ext_vars, next_track_id, api_result,
                   cb_playhead>>
    /\ stream_playing' = FALSE
    /\ voices' = all_notes_off_all_tracks(voices)
    /\ playhead_samples' = 0
    /\ sample_counter' = 0
    /\ ctl_pc' = "idle"
    /\ last' = [op |-> "stop", result |-> "ok", old |-> playhead_samples, clip |-> << >>]
    /\ UNCHANGED <<state, capturing, clip_vars, rec_state, recorded_samples,
                   count_in_bars, tempo, cb_vars>>

----------------------------------------------------------------------------
(* Recording API *)

\* api::start_recording
start_recording ==
    /\ ctl_pc = "idle"
    /\ UNCHANGED <<mix_vars, lock_vars, aux_vars>>
    /\ capturing' = TRUE
    /\ state' = AudioGraph_play.state
    /\ stream_playing' = AudioGraph_play.stream
    /\ rec_state' = Recorder_start_recording.state
    /\ recorded_samples' = Recorder_start_recording.samples
    /\ sample_counter' = Recorder_start_recording.counter
    /\ last' = [op |-> "start_recording",
                result |-> Recorder_start_recording.result, old |-> 0,
                clip |-> << >>]
    /\ UNCHANGED <<playhead_samples, clip_vars, count_in_bars, tempo, ctl_pc, cb_vars>>

\* api::stop_recording
stop_recording ==
    /\ ctl_pc = "idle"
    /\ UNCHANGED <<mix_vars, lock_vars, aux_vars>>
    /\ Recorder_stop_recording.result = "clip" => Len(clips) < MaxClips
    /\ rec_state' = Recorder_stop_recording.state
    /\ capturing' = FALSE
    /\ IF Recorder_stop_recording.result = "clip"
       THEN /\ clips' = Append(clips, next_clip_id)
            /\ next_clip_id' = next_clip_id + 1
       ELSE UNCHANGED clip_vars
    /\ last' = [op |-> "stop_recording", result |-> Recorder_stop_recording.result,
                old |-> 0, clip |-> Recorder_stop_recording.clip]
    /\ UNCHANGED <<graph_vars, recorded_samples, sample_counter, count_in_bars,
                   tempo, ctl_pc, cb_vars>>

----------------------------------------------------------------------------
(* The audio callback *)

\* the callback is entered: it reads the transport state once
callback_begin(n) ==
    /\ cb_pc = "idle"
    /\ UNCHANGED <<mix_vars, lock_vars, aux_vars>>
    /\ stream_playing
    /\ state = "Playing" => playhead_samples + n <= MaxPlayhead
    /\ cb_is_playing' = (state = "Playing")
    /\ cb_frames' = n
    /\ cb_frame_idx' = 0
    /\ cb_pc' = "pf_begin"
    /\ UNCHANGED <<graph_vars, capturing, clip_vars, recorder_vars, ctl_pc,
                   pf_state, pf_idx, last>>

\* process_frame: should_tick
should_tick(is_playing, current_state) == is_playing \/ current_state # "Idle"

\* process_frame, first part: the state is read and the counter is ticked
pf_begin ==
    /\ cb_pc = "pf_begin"
    /\ UNCHANGED <<mix_vars, lock_vars, aux_vars>>
    /\ should_tick(cb_is_playing, rec_state) => sample_counter < MaxCounter
    /\ pf_state' = rec_state
    /\ pf_idx' = sample_counter
    /\ sample_counter' = IF should_tick(cb_is_playing, rec_state)
                         THEN sample_counter + 1 ELSE sample_counter
    /\ cb_pc' = "pf_act"
    /\ UNCHANGED <<graph_vars, capturing, clip_vars, rec_state, recorded_samples,
                   count_in_bars, tempo, ctl_pc, cb_is_playing, cb_frames,
                   cb_frame_idx, last>>

\* process_frame: the count-in has elapsed at sample_idx
count_in_elapsed(sample_idx) ==
    sample_idx >= SamplesPerBar(tempo) * count_in_bars

\* process_frame, second part (the match on current_state), and the write
\* of the frame to the output buffer
pf_act ==
    /\ cb_pc = "pf_act"
    /\ UNCHANGED <<mix_vars, lock_vars, aux_vars>>
    /\ CASE pf_state = "CountingIn" ->
              IF count_in_elapsed(pf_idx)
              THEN /\ rec_state' = "Recording"
                   /\ sample_counter' = 0
                   /\ UNCHANGED recorded_samples
              ELSE UNCHANGED <<rec_state, sample_counter, recorded_samples>>
         [] pf_state = "Recording" ->
              /\ Len(recorded_samples) < 2 * MaxRecorded
              /\ \E in \in Inputs : recorded_samples' = recorded_samples \o in
              /\ UNCHANGED <<rec_state, sample_counter>>
         [] OTHER -> UNCHANGED <<rec_state, sample_counter, recorded_samples>>
    /\ cb_frame_idx' = cb_frame_idx + 1
    /\ cb_pc' = IF cb_frame_idx + 1 = cb_frames THEN "end" ELSE "pf_begin"
    /\ pf_state' = "Idle"
    /\ pf_idx' = 0
    /\ UNCHANGED <<graph_vars, capturing, clip_vars, count_in_bars, tempo, ctl_pc,
                   cb_is_playing, cb_frames, last>>

\* the end of the buffer: the playhead advances when the buffer was played
callback_end ==
    /\ cb_pc = "end"
    /\ UNCHANGED <<mix_vars, lock_vars, aux_vars>>
    /\ playhead_samples' = IF cb_is_playing
                           THEN playhead_samples + cb_frames
                           ELSE playhead_samples
    /\ cb_pc' = "idle"
    /\ cb_is_playing' = FALSE
    /\ cb_frames' = 0
    /\ cb_frame_idx' = 0
    /\ UNCHANGED <<state, stream_playing, capturing, clip_vars, recorder_vars,
                   ctl_pc, pf_state, pf_idx, last>>

----------------------------------------------------------------------------
(* Tracks and effects *)

\* the integer that stands for the sample value 1.0
FullScale == 8
\* the range of a track's volume in dB
MinVolumeDb == -96
MaxVolumeDb == 6
\* effect instances the registry may hold
MaxEffects == 1

\* arguments the model passes to the track and effect calls
VolumeInputs == {0, 100}
PanInputs == {-5, 0}
EffectTypeInputs == {"compressor"}
DurationInputs == {1}

\* Track::new: 0 dB, centre pan, not muted, not soloed, empty FX chain
NewTrack(type, placed) ==
    [track_type |-> type, volume_db |-> 0, pan |-> 0, mute |-> FALSE,
     solo |-> FALSE, audio_clips |-> placed, fx_chain |-> << >>]

\* TrackManager::new: the registry holds the master track, id 0
MasterOnly == 0 :> NewTrack("Master", << >>)

\* a project of two audio tracks, each holding one stereo clip placed by
\* add_clip_to_track: the clips overlap at timeline frame 1
ProjectTracks ==
    (0 :> NewTrack("Master", << >>)) @@
    (1 :> NewTrack("Audio", << [start |-> 0,
                                samples |-> << <<1, 2>>, <<1, 2>> >>] >>)) @@
    (2 :> NewTrack("Audio", << [start |-> 1,
                                samples |-> << <<4, 8>>, <<4, 8>> >>] >>))

\* the tracks the callback puts into track_snapshots (all but the master)
NonMasterIds == {t \in DOMAIN tracks : tracks[t].track_type # "Master"}
\* TrackManager::get_master_track
MasterId == CHOOSE t \in DOMAIN tracks : tracks[t].track_type = "Master"

\* TrackManager::has_solo: some non-master track is soloed
has_solo == \E t \in NonMasterIds : tracks[t].solo

\* Track::get_gain: the linear gain of volume_db (0 dB is unity, +6 dB
\* doubles, -96 dB is silence)
get_gain(volume_db) ==
    IF volume_db <= MinVolumeDb THEN 0
    ELSE IF volume_db >= MaxVolumeDb THEN 2 ELSE 1

\* Track::get_pan_gains: the (left, right) gains of pan
get_pan_gains(pan) ==
    IF pan < 0 THEN <<1, 0>> ELSE IF pan > 0 THEN <<0, 1>> ELSE <<1, 1>>

\* Limiter::process_frame: both channels are held within full scale
Limiter_process_frame(lr) ==
    <<Clamp(lr[1], -FullScale, FullScale), Clamp(lr[2], -FullScale, FullScale)>>

\* Compressor: what exceeds half of full scale is halved
Compress(x) ==
    LET threshold == FullScale \div 2
    IN  IF x > threshold THEN threshold + (x - threshold) \div 2
        ELSE IF x < -threshold THEN -(threshold + (-x - threshold) \div 2)
        ELSE x

\* Effect::process_frame, dispatched on the effect type
Effect_process_frame(type, lr) ==
    CASE type = "limiter" -> Limiter_process_frame(lr)
      [] type = "compressor" -> <<Compress(lr[1]), Compress(lr[2])>>
      [] OTHER -> lr

\* the TrackSnapshot the callback and render_offline take of a track
TrackSnapshot(t) ==
    [id |-> t,
     audio_clips |-> tracks[t].audio_clips,
     volume_gain |-> get_gain(tracks[t].volume_db),
     pan_left |-> get_pan_gains(tracks[t].pan)[1],
     pan_right |-> get_pan_gains(tracks[t].pan)[2],
     muted |-> tracks[t].mute,
     soloed |-> tracks[t].solo,
     fx_chain |-> tracks[t].fx_chain]

\* (mutant) set_track_volume storing the value as it is given
set_track_volume_unclamped(t, volume_db) ==
    /\ IF t \in DOMAIN tracks
       THEN /\ tracks' = [tracks EXCEPT ![t].volume_db = volume_db]
            /\ rt_out' = [playhead |-> 0, frames |-> << >>]
            /\ off_out' = << >>
            /\ api_result' = "ok"
       ELSE /\ UNCHANGED <<tracks, rt_out, off_out>>
            /\ api_result' = "err"
    /\ UNCHANGED <<graph_vars, capturing, clip_vars, recorder_vars, ctl_pc,
                   cb_vars, last, effects, next_effect_id, lock_vars,
                   probe_vars, ext_vars, next_track_id, synth_vars>>

\* api::set_track_volume: the value is clamped and stored, or the track is
\* not found and the call fails
set_track_volume(t, volume_db) ==
    /\ IF t \in DOMAIN tracks
       THEN /\ tracks' = [tracks EXCEPT ![t].volume_db =
                             Clamp(volume_db, MinVolumeDb, MaxVolumeDb)]
            /\ rt_out' = [playhead |-> 0, frames |-> << >>]
            /\ off_out' = << >>
            /\ api_result' = "ok"
       ELSE /\ UNCHANGED <<tracks, rt_out, off_out>>
            /\ api_result' = "err"
    /\ UNCHANGED <<graph_vars, capturing, clip_vars, recorder_vars, ctl_pc,
                   cb_vars, last, effects, next_effect_id, lock_vars,
                   probe_vars, ext_vars, next_track_id, synth_vars>>

\* api::set_track_pan
set_track_pan(t, pan) ==
    /\ IF t \in DOMAIN tracks
       THEN /\ tracks' = [tracks EXCEPT ![t].pan = Clamp(pan, -1, 1)]
            /\ rt_out' = [playhead |-> 0, frames |-> << >>]
            /\ off_out' = << >>
            /\ api_result' = "ok"
       ELSE /\ UNCHANGED <<tracks, rt_out, off_out>>
            /\ api_result' = "err"
    /\ UNCHANGED <<graph_vars, capturing, clip_vars, recorder_vars, ctl_pc,
                   cb_vars, last, effects, next_effect_id, lock_vars,
                   probe_vars, ext_vars, next_track_id, synth_vars>>

\* api::set_track_mute
set_track_mute(t, mute) ==
    /\ t \in DOMAIN tracks
    /\ tracks' = [tracks EXCEPT ![t].mute = mute]
    /\ rt_out' = [playhead |-> 0, frames |-> << >>]
    /\ off_out' = << >>
    /\ UNCHANGED <<graph_vars, capturing, clip_vars, recorder_vars, ctl_pc,
                   cb_vars, last, effects, next_effect_id, lock_vars, aux_vars>>

\* api::set_track_solo
set_track_solo(t, solo) ==
    /\ t \in DOMAIN tracks
    /\ tracks' = [tracks EXCEPT ![t].solo = solo]
    /\ rt_out' = [playhead |-> 0, frames |-> << >>]
    /\ off_out' = << >>
    /\ UNCHANGED <<graph_vars, capturing, clip_vars, recorder_vars, ctl_pc,
                   cb_vars, last, effects, next_effect_id, lock_vars, aux_vars>>

\* str::to_lowercase, on the strings the model passes
to_lowercase(str) ==
    CASE str = "MASTER" -> "master"
      [] str = "Audio" -> "audio"
      [] str = "Compressor" -> "compressor"
      [] OTHER -> str

\* the effect types add_effect_to_track and the project restore know
EffectTypes == {"eq", "compressor", "reverb", "delay", "chorus", "limiter"}

\* EffectManager::create_effect: the effect is registered under the next id
EffectManager_create_effect(registry, type) ==
    [effects |-> [id \in DOMAIN registry.effects \cup {registry.next_id} |->
                      IF id = registry.next_id THEN type
                      ELSE registry.effects[id]],
     next_id |-> registry.next_id + 1,
     id |-> registry.next_id]

\* EffectManager::remove_effect
EffectManager_remove_effect(registry, effect_id) ==
    [id \in DOMAIN registry \ {effect_id} |-> registry[id]]

\* (mutant) add_effect_to_track pushing the new id to the chain twice
add_effect_to_track_twice(t, type) ==
    /\ IF to_lowercase(type) \notin EffectTypes
       THEN /\ api_result' = "err"
            /\ UNCHANGED <<tracks, effects, next_effect_id, rt_out, off_out>>
       ELSE LET created == EffectManager_create_effect(
                               [effects |-> effects, next_id |-> next_effect_id],
                               to_lowercase(type))
            IN  /\ effects' = created.effects
                /\ next_effect_id' = created.next_id
                /\ IF t \in DOMAIN tracks
                   THEN /\ tracks' = [tracks EXCEPT ![t].fx_chain =
                                         Append(Append(@, created.id), created.id)]
                        /\ rt_out' = [playhead |-> 0, frames |-> << >>]
                        /\ off_out' = << >>
                        /\ api_result' = "ok"
                   ELSE /\ UNCHANGED <<tracks, rt_out, off_out>>
                        /\ api_result' = "err"
    /\ UNCHANGED <<graph_vars, capturing, clip_vars, recorder_vars, ctl_pc,
                   cb_vars, last, lock_vars, probe_vars, ext_vars, next_track_id, synth_vars>>

\* api::add_effect_to_track: the effect is created in the registry, then the
\* track is looked up and the id is pushed to the end of its FX chain
add_effect_to_track(t, type) ==
    /\ IF to_lowercase(type) \notin EffectTypes
       THEN /\ api_result' = "err"
            /\ UNCHANGED <<tracks, effects, next_effect_id, rt_out, off_out>>
       ELSE LET created == EffectManager_create_effect(
                               [effects |-> effects, next_id |-> next_effect_id],
                               to_lowercase(type))
            IN  /\ effects' = created.effects
                /\ next_effect_id' = created.next_id
                /\ IF t \in DOMAIN tracks
                   THEN /\ tracks' = [tracks EXCEPT
                                         ![t].fx_chain = Append(@, created.id)]
                        /\ rt_out' = [playhead |-> 0, frames |-> << >>]
                        /\ off_out' = << >>
                        /\ api_result' = "ok"
                   ELSE /\ UNCHANGED <<tracks, rt_out, off_out>>
                        /\ api_result' = "err"
    /\ UNCHANGED <<graph_vars, capturing, clip_vars, recorder_vars, ctl_pc,
                   cb_vars, last, lock_vars, probe_vars, ext_vars, next_track_id, synth_vars>>

----------------------------------------------------------------------------
(* Mixing: the real-time callback and render_offline *)

\* the stereo value the audio clips of a track have at a timeline frame
RECURSIVE audio_clips_frame(_, _)
audio_clips_frame(placed, playhead_frame) ==
    IF placed = << >> THEN <<0, 0>>
    ELSE LET c == Head(placed)
             rest == audio_clips_frame(Tail(placed), playhead_frame)
         IN  IF /\ playhead_frame >= c.start
                /\ playhead_frame < c.start + Len(c.samples)
             THEN <<rest[1] + c.samples[playhead_frame - c.start + 1][1],
                    rest[2] + c.samples[playhead_frame - c.start + 1][2]>>
             ELSE rest

\* an FX chain, run in list order; an id the registry does not hold is skipped
RECURSIVE fx_chain_process(_, _)
fx_chain_process(fx_chain, lr) ==
    IF fx_chain = << >> THEN lr
    ELSE fx_chain_process(Tail(fx_chain),
                          IF Head(fx_chain) \in DOMAIN effects
                          THEN Effect_process_frame(effects[Head(fx_chain)], lr)
                          ELSE lr)

\* the sum of the stereo values f[t], t in ids
RECURSIVE mix_sum(_, _)
mix_sum(f, ids) ==
    IF ids = {} THEN <<0, 0>>
    ELSE LET t == CHOOSE x \in ids : TRUE
             rest == mix_sum(f, ids \ {t})
         IN  <<rest[1] + f[t][1], rest[2] + f[t][2]>>

\* (mutant) the gate without the solo test
track_skipped_ignores_solo(snap, has_solo_flag) == snap.muted

\* callback: the mute/solo gate (the two `continue`s)
track_skipped(snap, has_solo_flag) ==
    snap.muted \/ (has_solo_flag /\ ~snap.soloed)

\* callback: what a track that passed the gate adds to the mix bus: its
\* clips, the track volume, the track pan, the track FX chain (the tracks of
\* this model have no synthesizer, so process_sample adds 0.0)
track_frame(snap, playhead_frame) ==
    LET clip == audio_clips_frame(snap.audio_clips, playhead_frame)
        vol == <<clip[1] * snap.volume_gain, clip[2] * snap.volume_gain>>
        pan == <<vol[1] * snap.pan_left, vol[2] * snap.pan_right>>
    IN  fx_chain_process(snap.fx_chain, pan)

\* callback: master volume, master pan, master FX chain, master limiter
master_frame(bus, master_snap) ==
    LET vol == <<bus[1] * master_snap.volume_gain, bus[2] * master_snap.volume_gain>>
        pan == <<vol[1] * master_snap.pan_left, vol[2] * master_snap.pan_right>>
    IN  Limiter_process_frame(fx_chain_process(master_snap.fx_chain, pan))

\* callback: one frame of the loop; mixed is the set of tracks accumulated
\* to the mix bus, contrib what each track added to it
rt_frame(playhead_frame) ==
    LET mixed == {t \in NonMasterIds : ~track_skipped(TrackSnapshot(t), has_solo)}
        contrib == [t \in NonMasterIds |->
                       IF t \in mixed
                       THEN track_frame(TrackSnapshot(t), playhead_frame)
                       ELSE <<0, 0>>]
        bus == mix_sum(contrib, NonMasterIds)
    IN  [frame |-> playhead_frame, mixed |-> mixed, contrib |-> contrib,
         bus |-> bus, out |-> master_frame(bus, TrackSnapshot(MasterId))]

\* render_offline: the mute/solo gate
offline_track_skipped(snap, has_solo_flag) ==
    snap.muted \/ (has_solo_flag /\ ~snap.soloed)

\* render_offline: what a track that passed the gate adds to the mix bus
offline_track_frame(snap, frame_idx) ==
    LET clip == audio_clips_frame(snap.audio_clips, frame_idx)
        vol == <<clip[1] * snap.volume_gain, clip[2] * snap.volume_gain>>
        pan == <<vol[1] * snap.pan_left, vol[2] * snap.pan_right>>
    IN  fx_chain_process(snap.fx_chain, pan)

\* render_offline: master volume, master pan (temp_l, temp_r), master FX
\* chain, master limiter
offline_master_frame(bus, master_snap) ==
    LET vol == <<bus[1] * master_snap.volume_gain, bus[2] * master_snap.volume_gain>>
        temp_l == vol[1] * master_snap.pan_left + vol[2] * master_snap.pan_left
        temp_r == vol[1] * master_snap.pan_right + vol[2] * master_snap.pan_right
    IN  Limiter_process_frame(fx_chain_process(master_snap.fx_chain,
                                               <<temp_l, temp_r>>))

\* render_offline: one frame of the loop
offline_frame(frame_idx) ==
    LET mixed == {t \in NonMasterIds :
                     ~offline_track_skipped(TrackSnapshot(t), has_solo)}
        contrib == [t \in NonMasterIds |->
                       IF t \in mixed
                       THEN offline_track_frame(TrackSnapshot(t), frame_idx)
                       ELSE <<0, 0>>]
        bus == mix_sum(contrib, NonMasterIds)
    IN  [frame |-> frame_idx, mixed |-> mixed, contrib |-> contrib,
         bus |-> bus, out |-> offline_master_frame(bus, TrackSnapshot(MasterId))]

\* the callback while Playing, as far as the mix goes: it reads the playhead,
\* snapshots the tracks, mixes n frames and advances the playhead (the
\* recorder's part of each frame is pf_begin and pf_act)
mix_buffer(n) ==
    /\ state = "Playing"
    /\ stream_playing
    /\ playhead_samples + n <= MaxPlayhead
    /\ rt_out' = [playhead |-> playhead_samples,
                  frames |-> [i \in 1..n |-> rt_frame(playhead_samples + i - 1)]]
    /\ playhead_samples' = playhead_samples + n
    /\ UNCHANGED <<state, stream_playing, capturing, clip_vars, recorder_vars,
                   ctl_pc, cb_vars, last, tracks, effects, next_effect_id,
                   off_out, lock_vars, aux_vars>>

\* AudioGraph::render_offline
render_offline(duration_seconds) ==
    /\ off_out' = [i \in 1..(duration_seconds * SampleRate) |-> offline_frame(i - 1)]
    /\ UNCHANGED <<graph_vars, capturing, clip_vars, recorder_vars, ctl_pc,
                   cb_vars, last, tracks, effects, next_effect_id, rt_out,
                   lock_vars, aux_vars>>

----------------------------------------------------------------------------
(* The mutexes the audio callback shares with the control thread *)

Locks == {"clips", "midi_clips", "tempo", "track_manager", "track",
          "master_track", "synth_manager", "effect_manager", "effect",
          "master_effect", "input_manager", "rec_state", "time_signature",
          "count_in_bars", "recorded_samples", "master_limiter"}

\* a place where the callback calls lock(): the mutex, what is done with the
\* result (expect and unwrap panic on Err, if_let falls back), and the
\* recorder state under which the place is reached
Site(l, m, w) == [lock |-> l, mode |-> m, when |-> w]

\* callback while Playing, before the frame loop: the clip lists, the tempo,
\* the track registry and each track (one track and the master here)
PreLoopSites ==
    << Site("clips", "expect", "any"), Site("midi_clips", "expect", "any"),
       Site("tempo", "expect", "any"), Site("track_manager", "if_let", "any"),
       Site("track", "if_let", "any"), Site("master_track", "if_let", "any") >>

\* RecorderCallbackRefs::process_frame (the state is locked again only at
\* the frame that ends the count-in)
ProcessFrameSites ==
    << Site("rec_state", "unwrap", "any"), Site("tempo", "unwrap", "any"),
       Site("time_signature", "unwrap", "any"),
       Site("count_in_bars", "unwrap", "CountingIn"),
       Site("rec_state", "unwrap", "CountingIn"),
       Site("recorded_samples", "if_let", "Recording") >>

\* callback while Playing, one frame of the loop: the track's synthesizer and
\* FX chain (one effect), the input, process_frame, the master FX chain (one
\* effect) and the master limiter
PlayingFrameSites ==
    << Site("synth_manager", "if_let", "any"),
       Site("effect_manager", "if_let", "any"), Site("effect", "if_let", "any"),
       Site("input_manager", "if_let", "any") >>
    \o ProcessFrameSites \o
    << Site("effect_manager", "if_let", "any"),
       Site("master_effect", "if_let", "any"),
       Site("master_limiter", "if_let", "any") >>

\* callback while Playing, after the frame loop: the peaks are published
PostLoopSites ==
    << Site("track_manager", "if_let", "any"), Site("track", "if_let", "any"),
       Site("master_track", "if_let", "any") >>

\* callback while not Playing, one frame of the loop
IdleFrameSites ==
    << Site("input_manager", "if_let", "any") >> \o ProcessFrameSites

\* the lock sites of the phase the callback is in
CurrentSites ==
    CASE lk_pc = "pre" -> PreLoopSites
      [] lk_pc = "frame" -> IF lk_playing THEN PlayingFrameSites ELSE IdleFrameSites
      [] lk_pc = "post" -> PostLoopSites
      [] OTHER -> << >>

CurrentSite == CurrentSites[lk_step]

SiteReached(s) == s.when = "any" \/ s.when = lk_rec

\* a control-thread call enters a critical section on mutex l (add_clip,
\* set_tempo, set_track_volume, add_effect_to_track, start_capture, ...)
control_lock(l) ==
    /\ ctl_pc = "idle"
    /\ ctl_lock = "none"
    /\ l \notin poisoned
    /\ ctl_lock' = l
    /\ UNCHANGED <<graph_vars, capturing, clip_vars, recorder_vars, ctl_pc,
                   cb_vars, last, mix_vars, aux_vars, poisoned, lk_pc, lk_step, lk_frames,
                   lk_frame_idx, lk_playing, lk_rec, lk_wait, lk_count,
                   lk_written, lk_panicked>>

\* the control-thread call leaves its critical section
control_unlock ==
    /\ ctl_lock # "none"
    /\ ctl_lock' = "none"
    /\ UNCHANGED <<graph_vars, capturing, clip_vars, recorder_vars, ctl_pc,
                   cb_vars, last, mix_vars, aux_vars, poisoned, lk_pc, lk_step, lk_frames,
                   lk_frame_idx, lk_playing, lk_rec, lk_wait, lk_count,
                   lk_written, lk_panicked>>

\* Recorder::stop_recording panics while it holds the state lock: with
\* captured samples it has stored Idle and unwraps duration_since(UNIX_EPOCH),
\* which is Err when the system clock is before the epoch; the unwinding
\* drops the guard and poisons the mutex
control_panic ==
    /\ ctl_lock = "rec_state"
    /\ rec_state # "Idle"
    /\ recorded_samples # << >>
    /\ rec_state' = "Idle"
    /\ poisoned' = poisoned \cup {"rec_state"}
    /\ ctl_lock' = "none"
    /\ UNCHANGED <<graph_vars, capturing, clip_vars, recorded_samples,
                   sample_counter, count_in_bars, tempo, ctl_pc, cb_vars, last,
                   mix_vars, aux_vars, lk_pc, lk_step, lk_frames, lk_frame_idx,
                   lk_playing, lk_rec, lk_wait, lk_count, lk_written,
                   lk_panicked>>

\* the callback is entered, as far as its locking goes: it reads the
\* transport state once
lock_callback_begin(n) ==
    /\ lk_pc = "idle"
    /\ stream_playing
    /\ state = "Playing" => playhead_samples + n <= MaxPlayhead
    /\ lk_playing' = (state = "Playing")
    /\ lk_pc' = IF state = "Playing" THEN "pre" ELSE "frame"
    /\ lk_step' = 1
    /\ lk_frames' = n
    /\ lk_frame_idx' = 0
    /\ lk_rec' = "Idle"
    /\ lk_count' = [l \in Locks |-> 0]
    /\ lk_written' = 0
    /\ UNCHANGED <<graph_vars, capturing, clip_vars, recorder_vars, ctl_pc,
                   cb_vars, last, mix_vars, aux_vars, ctl_lock, poisoned, lk_wait,
                   lk_panicked>>

\* the callback calls lock() on a mutex the control thread holds: it blocks
callback_lock_wait ==
    /\ lk_pc \in {"pre", "frame", "post"}
    /\ SiteReached(CurrentSite)
    /\ ctl_lock = CurrentSite.lock
    /\ lk_wait = "none"
    /\ lk_wait' = CurrentSite.lock
    /\ UNCHANGED <<graph_vars, capturing, clip_vars, recorder_vars, ctl_pc,
                   cb_vars, last, mix_vars, aux_vars, ctl_lock, poisoned, lk_pc, lk_step,
                   lk_frames, lk_frame_idx, lk_playing, lk_rec, lk_count,
                   lk_written, lk_panicked>>

\* the callback passes a lock site: lock() returns once the mutex is free;
\* on a poisoned mutex expect and unwrap panic; at the end of a frame's
\* sites the frame is written to the output buffer
callback_lock ==
    /\ lk_pc \in {"pre", "frame", "post"}
    /\ SiteReached(CurrentSite) => ctl_lock # CurrentSite.lock
    /\ lk_wait' = "none"
    /\ IF /\ SiteReached(CurrentSite)
          /\ CurrentSite.lock \in poisoned
          /\ CurrentSite.mode \in {"expect", "unwrap"}
       THEN /\ lk_pc' = "panicked"
            /\ lk_panicked' = TRUE
            /\ UNCHANGED <<lk_step, lk_frame_idx, lk_rec, lk_count, lk_written>>
       ELSE /\ lk_count' = IF SiteReached(CurrentSite)
                           THEN [lk_count EXCEPT ![CurrentSite.lock] = @ + 1]
                           ELSE lk_count
            /\ lk_rec' = IF CurrentSite = Site("rec_state", "unwrap", "any")
                         THEN rec_state
                         ELSE IF lk_step < Len(CurrentSites) THEN lk_rec
                         ELSE "Idle"
            /\ IF lk_step < Len(CurrentSites)
               THEN /\ lk_step' = lk_step + 1
                    /\ UNCHANGED <<lk_pc, lk_frame_idx, lk_written>>
               ELSE /\ lk_step' = 1
                    /\ lk_written' = IF lk_pc = "frame" THEN lk_written + 1
                                     ELSE lk_written
                    /\ lk_frame_idx' = IF lk_pc = "frame" THEN lk_frame_idx + 1
                                       ELSE lk_frame_idx
                    /\ lk_pc' = CASE lk_pc = "pre" -> "frame"
                                  [] lk_pc = "frame" ->
                                       IF lk_frame_idx + 1 < lk_frames THEN "frame"
                                       ELSE IF lk_playing THEN "post" ELSE "end"
                                  [] OTHER -> "end"
            /\ UNCHANGED lk_panicked
    /\ UNCHANGED <<graph_vars, capturing, clip_vars, recorder_vars, ctl_pc,
                   cb_vars, last, mix_vars, aux_vars, ctl_lock, poisoned, lk_frames,
                   lk_playing>>

\* the callback returns: the playhead advances when the buffer was played
lock_callback_end ==
    /\ lk_pc = "end"
    /\ playhead_samples' = IF lk_playing THEN playhead_samples + lk_frames
                           ELSE playhead_samples
    /\ lk_pc' = "idle"
    /\ UNCHANGED <<state, stream_playing, capturing, clip_vars, recorder_vars,
                   ctl_pc, cb_vars, last, mix_vars, aux_vars, ctl_lock, poisoned, lk_step,
                   lk_frames, lk_frame_idx, lk_playing, lk_rec, lk_wait,
                   lk_count, lk_written, lk_panicked>>

\* no mutex is held or poisoned and the callback is not running
LocksFree ==
    /\ ctl_lock = "none"
    /\ poisoned = {}
    /\ lk_pc = "idle"
    /\ lk_step = 1
    /\ lk_frames = 0
    /\ lk_frame_idx = 0
    /\ lk_playing = FALSE
    /\ lk_rec = "Idle"
    /\ lk_wait = "none"
    /\ lk_count = << >>
    /\ lk_written = 0
    /\ lk_panicked = FALSE

\* no input has been fed and no Recorder call has returned
RecorderUntouched ==
    /\ fed = << >>
    /\ rec_ret = [op |-> "new", result |-> "ok", samples |-> << >>,
                  channels |-> 0, duration |-> <<0, 1>>]

\* the metronome is off, and no buffer has been metered
MeterIdle ==
    /\ metronome_enabled = FALSE
    /\ peaks = [t \in {} |-> <<0, 0>>]
    /\ out_buf = [data |-> << >>, met |-> << >>, enabled |-> FALSE]
    /\ twin = [data |-> << >>, met |-> << >>, enabled |-> TRUE,
               peaks |-> [t \in {} |-> <<0, 0>>]]

\* addresses the model has for Arc<MidiClip> allocations
MaxAddrs == 3

\* no MIDI clip exists, no callback has taken a snapshot
MidiIdle ==
    /\ midi_heap = [a \in 1..MaxAddrs |-> << >>]
    /\ midi_clips = << >>
    /\ track_midi_clips = [t \in {} |-> << >>]
    /\ midi_cb = [pc |-> "idle", midi_clips_snapshot |-> << >>,
                  track_snapshots |-> [t \in {} |-> << >>],
                  taken |-> [t \in {} |-> << >>], seen |-> << >>, edited |-> FALSE]
    /\ midi_call = [pc |-> "idle", addr |-> 0, pending |-> << >>,
                    synced |-> << >>]

\* the log before the first logged call
NoCall ==
    [op |-> "none", was |-> "Stopped", result |-> "ok", started |-> FALSE,
     playhead |-> 0, t |-> 0, tempo |-> 0, after_seek |-> FALSE,
     value |-> <<0, 1>>]

\* the threads that take the mutexes
Threads == {"audio", "midi", "control"}

\* no mutex is held and no thread is inside a call
NoOwners ==
    [owner |-> [l \in {} |-> "none"],
     run |-> [th \in Threads |-> [name |-> "idle", script |-> << >>, pc |-> 1]]]

\* MidiRecorder::new
MidiRecorder_new ==
    [state |-> "Idle", events |-> << >>, start_timestamp |-> 0, tempo |-> 120,
     quantize_grid_samples |-> 0]

ExtIdle ==
    /\ MeterIdle
    /\ MidiIdle
    /\ fx_trace = << >>
    /\ call_log = NoCall
    /\ mutexes = NoOwners
    /\ midi_rec = MidiRecorder_new

\* the state of the parts a specification does not exercise
AuxIdle ==
    /\ RecorderUntouched
    /\ api_result = "ok"
    /\ voices = NewVoices
    /\ cb_playhead = 0
    /\ ExtIdle

----------------------------------------------------------------------------
(* Specification of the transport, the recorder and the callback *)

\* AudioGraph::new and Recorder::new
Init ==
    /\ state = "Stopped"
    /\ playhead_samples = 0
    /\ stream_playing = FALSE
    /\ capturing = FALSE
    /\ clips = << >>
    /\ next_clip_id = 0
    /\ rec_state = "Idle"
    /\ recorded_samples = << >>
    /\ sample_counter = 0
    /\ count_in_bars = DefaultCountIn
    /\ tempo = DefaultTempo
    /\ ctl_pc = "idle"
    /\ cb_pc = "idle"
    /\ cb_is_playing = FALSE
    /\ cb_frames = 0
    /\ cb_frame_idx = 0
    /\ pf_state = "Idle"
    /\ pf_idx = 0
    /\ last = [op |-> "new", result |-> "ok", old |-> 0, clip |-> << >>]
    /\ tracks = MasterOnly
    /\ next_track_id = 1
    /\ effects = [id \in {} |-> "none"]
    /\ next_effect_id = 0
    /\ rt_out = [playhead |-> 0, frames |-> << >>]
    /\ off_out = << >>
    /\ LocksFree
    /\ AuxIdle

Next ==
    \/ play
    \/ pause_begin
    \/ pause_finish
    \/ stop_begin
    \/ stop_finish
    \/ start_recording
    \/ stop_recording
    \/ \E bpm \in TempoInputs : set_tempo(bpm)
    \/ \E bars \in CountInInputs : set_count_in_bars(bars)
    \/ \E n \in 1..MaxFrames : callback_begin(n)
    \/ pf_begin
    \/ pf_act
    \/ callback_end

Spec == Init /\ [][Next]_vars

----------------------------------------------------------------------------
(* Specification of the mix: a project of two audio tracks is playing *)

InitMix ==
    /\ state = "Playing"
    /\ playhead_samples = 0
    /\ stream_playing = TRUE
    /\ capturing = FALSE
    /\ clips = << >>
    /\ next_clip_id = 2
    /\ rec_state = "Idle"
    /\ recorded_samples = << >>
    /\ sample_counter = 0
    /\ count_in_bars = DefaultCountIn
    /\ tempo = DefaultTempo
    /\ ctl_pc = "idle"
    /\ cb_pc = "idle"
    /\ cb_is_playing = FALSE
    /\ cb_frames = 0
    /\ cb_frame_idx = 0
    /\ pf_state = "Idle"
    /\ pf_idx = 0
    /\ last = [op |-> "new", result |-> "ok", old |-> 0, clip |-> << >>]
    /\ tracks = ProjectTracks
    /\ next_track_id = 3
    /\ effects = [id \in {} |-> "none"]
    /\ next_effect_id = 0
    /\ rt_out = [playhead |-> 0, frames |-> << >>]
    /\ off_out = << >>
    /\ LocksFree
    /\ AuxIdle

NextMix ==
    \/ \E t \in DOMAIN tracks : \E db \in VolumeInputs : set_track_volume(t, db)
    \/ \E t \in DOMAIN tracks : \E pan \in PanInputs : set_track_pan(t, pan)
    \/ \E t \in NonMasterIds : \E mute \in BOOLEAN : set_track_mute(t, mute)
    \/ \E t \in NonMasterIds : \E solo \in BOOLEAN : set_track_solo(t, solo)
    \/ \E t \in DOMAIN tracks : \E type \in EffectTypeInputs :
           next_effect_id < MaxEffects /\ add_effect_to_track(t, type)
    \/ \E n \in 1..MaxFrames : mix_buffer(n)
    \/ \E duration \in DurationInputs : render_offline(duration)

SpecMix == InitMix /\ [][NextMix]_vars

----------------------------------------------------------------------------
(* Mixing claims *)

\* the frames rendered from the current mixer settings, by either path
RenderedFrames ==
    {rt_out.frames[i] : i \in 1..Len(rt_out.frames)}
        \cup {off_out[i] : i \in 1..Len(off_out)}

\* the claim's gate: not muted, and no track is soloed or this one is
Audible(t) ==
    /\ ~tracks[t].mute
    /\ (~(\E u \in NonMasterIds : tracks[u].solo) \/ tracks[t].solo)

\* C2: in every mixed frame, real-time and offline, a non-master track is
\* accumulated to the mix bus if and only if it is not muted and (no track is
\* soloed or it is soloed); a track that is not contributes exactly zero and
\* the mix bus is the sum of the others' values.
C2_MuteSoloGate ==
    \A fr \in RenderedFrames :
        /\ fr.mixed = {t \in NonMasterIds : Audible(t)}
        /\ \A t \in NonMasterIds : ~Audible(t) => fr.contrib[t] = <<0, 0>>
        /\ fr.bus = mix_sum(fr.contrib, fr.mixed)

\* track 2 is soloed, track 1 is unmuted and not soloed and its clip sounds:
\* both paths have rendered frame 1, where track 1 adds nothing and track 2
\* adds its clip
C2_Witness ==
    /\ tracks[2].solo /\ ~tracks[2].mute
    /\ ~tracks[1].solo /\ ~tracks[1].mute
    /\ Len(off_out) > 1
    /\ \E i \in 1..Len(rt_out.frames) :
           /\ rt_out.frames[i].frame = 1
           /\ rt_out.frames[i].contrib[1] = <<0, 0>>
           /\ rt_out.frames[i].contrib[2] # <<0, 0>>
           /\ rt_out.frames[i].bus = rt_out.frames[i].contrib[2]
           /\ off_out[2].contrib = rt_out.frames[i].contrib

\* C3: for the same tracks, clips, gains, pans and FX chains and the same
\* timeline frame, render_offline computes the same stereo value as the
\* callback's mix before the metronome is added.
C3_OfflineMatchesRealTime ==
    \A i \in 1..Len(rt_out.frames) :
        rt_out.playhead + i <= Len(off_out) =>
            off_out[rt_out.playhead + i].out = rt_out.frames[i].out

----------------------------------------------------------------------------
(* Specification of the locking: a recording is in progress *)

\* the state after set_count_in_bars(0), start_recording() and one callback
\* of one frame
InitLocks ==
    /\ state = "Playing"
    /\ playhead_samples = 1
    /\ stream_playing = TRUE
    /\ capturing = TRUE
    /\ clips = << >>
    /\ next_clip_id = 0
    /\ rec_state = "Recording"
    /\ recorded_samples = <<1, 2>>
    /\ sample_counter = 1
    /\ count_in_bars = 0
    /\ tempo = DefaultTempo
    /\ ctl_pc = "idle"
    /\ cb_pc = "idle"
    /\ cb_is_playing = FALSE
    /\ cb_frames = 0
    /\ cb_frame_idx = 0
    /\ pf_state = "Idle"
    /\ pf_idx = 0
    /\ last = [op |-> "start_recording", result |-> "ok", old |-> 0, clip |-> << >>]
    /\ tracks = MasterOnly
    /\ next_track_id = 1
    /\ effects = [id \in {} |-> "none"]
    /\ next_effect_id = 0
    /\ rt_out = [playhead |-> 0, frames |-> << >>]
    /\ off_out = << >>
    /\ LocksFree
    /\ AuxIdle

NextLocks ==
    \/ ctl_lock = "none" /\ play
    \/ ctl_lock = "none" /\ pause_begin
    \/ pause_finish
    \/ ctl_lock = "none" /\ stop_begin
    \/ stop_finish
    \/ \E l \in Locks : control_lock(l)
    \/ control_unlock
    \/ control_panic
    \/ \E n \in 1..MaxFrames : lock_callback_begin(n)
    \/ callback_lock_wait
    \/ callback_lock
    \/ lock_callback_end

SpecLocks == InitLocks /\ [][NextLocks]_vars

----------------------------------------------------------------------------
(* Locking claims *)

\* C4: the audio callback never waits for a lock that a control thread
\* holds: it is never blocked on a mutex.
C4_CallbackNeverWaits == lk_wait = "none"

\* C5: during one invocation of the callback while Playing every mutex is
\* acquired at most once (the track registry and the tracks a second time at
\* the end of the buffer, to publish the peaks), however many frames the
\* buffer has.
C5_OneAcquisitionPerBuffer ==
    lk_playing =>
        \A l \in DOMAIN lk_count :
            lk_count[l] <= IF l \in {"track_manager", "track", "master_track"}
                           THEN 2 ELSE 1

\* C6: when acquiring a lock fails inside the callback because the mutex is
\* poisoned, the callback does not panic and returns with every frame of the
\* output buffer written.
C6_CallbackSurvivesPoison ==
    /\ ~lk_panicked
    /\ lk_pc = "end" => lk_written = lk_frames

----------------------------------------------------------------------------
(* Transport and recorder claims *)

C7_RecorderTransitions ==
    [][rec_state' # rec_state =>
         \/ /\ rec_state = "Idle"
            /\ rec_state' \in {"CountingIn", "Recording"}
            /\ start_recording
         \/ /\ rec_state = "CountingIn"
            /\ rec_state' = "Recording"
            /\ pf_act
         \/ /\ rec_state \in {"CountingIn", "Recording"}
            /\ rec_state' = "Idle"
            /\ stop_recording]_vars

\* C8: Recorder::start_recording fails and leaves the state, the capture
\* buffer and the counter alone unless the recorder is Idle; from Idle it
\* clears the buffer, zeroes the counter and enters CountingIn when
\* count_in_bars > 0 and Recording when it is 0.
C8_StartRecording ==
    [][start_recording =>
         IF rec_state # "Idle"
         THEN /\ last'.result = "err"
              /\ UNCHANGED <<rec_state, recorded_samples, sample_counter>>
         ELSE /\ last'.result = "ok"
              /\ recorded_samples' = << >>
              /\ sample_counter' = 0
              /\ rec_state' = IF count_in_bars > 0 THEN "CountingIn"
                              ELSE "Recording"]_vars

\* start_recording has just failed on a recorder that holds captured samples
C8_Witness ==
    /\ last.op = "start_recording"
    /\ last.result = "err"
    /\ rec_state = "Recording"
    /\ recorded_samples # << >>
    /\ sample_counter > 0

\* C9: the API's start_recording, called while the recorder is CountingIn or
\* Recording, fails and changes nothing: not the transport, not the stream,
\* not the input capture, not the recorder.
C9_FailedStartChangesNothing ==
    [][(start_recording /\ rec_state # "Idle") =>
         /\ last'.result = "err"
         /\ UNCHANGED <<graph_vars, capturing, clip_vars, recorder_vars>>]_vars

\* C10: stop_recording fails when the recorder is Idle; otherwise it sets the
\* state to Idle and returns a clip exactly when the capture buffer is not
\* empty.
C10_StopRecording ==
    [][stop_recording =>
         IF rec_state = "Idle"
         THEN last'.result = "err"
         ELSE /\ rec_state' = "Idle"
              /\ last'.result = (IF recorded_samples # << >> THEN "clip"
                                 ELSE "none")
              /\ last'.clip = recorded_samples]_vars

----------------------------------------------------------------------------
(* Specification of the Recorder called directly, one call at a time *)

\* frames one recording is fed in this specification
MaxFed == 3

\* (mutant) process_frame pushing the right sample before the left one
Recorder_process_frame_swapped(in, is_playing) ==
    LET current_state == rec_state
        sample_idx == sample_counter
        ticked == IF should_tick(is_playing, current_state)
                  THEN sample_counter + 1 ELSE sample_counter
    IN CASE current_state = "CountingIn" ->
              IF count_in_elapsed(sample_idx)
              THEN [state |-> "Recording", counter |-> 0,
                    samples |-> recorded_samples]
              ELSE [state |-> rec_state, counter |-> ticked,
                    samples |-> recorded_samples]
         [] current_state = "Recording" ->
              [state |-> rec_state, counter |-> ticked,
               samples |-> recorded_samples \o <<in[2], in[1]>>]
         [] OTHER ->
              [state |-> rec_state, counter |-> ticked,
               samples |-> recorded_samples]

\* Recorder::process_frame run from its first statement to its last with no
\* other call in between: the recorder fields it leaves
Recorder_process_frame(in, is_playing) ==
    LET current_state == rec_state
        sample_idx == sample_counter
        ticked == IF should_tick(is_playing, current_state)
                  THEN sample_counter + 1 ELSE sample_counter
    IN CASE current_state = "CountingIn" ->
              IF count_in_elapsed(sample_idx)
              THEN [state |-> "Recording", counter |-> 0,
                    samples |-> recorded_samples]
              ELSE [state |-> rec_state, counter |-> ticked,
                    samples |-> recorded_samples]
         [] current_state = "Recording" ->
              [state |-> rec_state, counter |-> ticked,
               samples |-> recorded_samples \o <<in[1], in[2]>>]
         [] OTHER ->
              [state |-> rec_state, counter |-> ticked,
               samples |-> recorded_samples]

\* the AudioClip stop_recording builds from the captured samples:
\* channels, and duration_seconds as <<frame_count, sample rate>>
AudioClip(samples) ==
    [samples |-> samples, channels |-> 2,
     duration |-> <<Len(samples) \div 2, SampleRate>>]

\* a direct call of Recorder::start_recording
recorder_start_recording ==
    /\ LET r == Recorder_start_recording
       IN /\ rec_state' = r.state
          /\ recorded_samples' = r.samples
          /\ sample_counter' = r.counter
          /\ fed' = IF r.result = "ok" THEN << >> ELSE fed
          /\ rec_ret' = [op |-> "start_recording", result |-> r.result,
                         samples |-> << >>, channels |-> 0,
                         duration |-> <<0, 1>>]
    /\ UNCHANGED <<graph_vars, capturing, clip_vars, count_in_bars, tempo,
                   ctl_pc, cb_vars, last, mix_vars, lock_vars, next_track_id,
                   api_result, synth_vars,
                   ext_vars>>

\* a direct call of Recorder::process_frame
recorder_process_frame(in, is_playing) ==
    /\ should_tick(is_playing, rec_state) => sample_counter < MaxCounter
    /\ rec_state = "Recording" => Len(fed) < 2 * MaxFed
    /\ LET r == Recorder_process_frame(in, is_playing)
       IN /\ rec_state' = r.state
          /\ recorded_samples' = r.samples
          /\ sample_counter' = r.counter
    /\ fed' = IF rec_state = "Recording" THEN fed \o in ELSE fed
    /\ UNCHANGED <<graph_vars, capturing, clip_vars, count_in_bars, tempo,
                   ctl_pc, cb_vars, last, mix_vars, lock_vars, rec_ret,
                   next_track_id, api_result, synth_vars,
                   ext_vars>>

\* a direct call of Recorder::stop_recording
recorder_stop_recording ==
    /\ LET r == Recorder_stop_recording
       IN /\ rec_state' = r.state
          /\ rec_ret' = IF r.result = "clip"
                        THEN [op |-> "stop_recording", result |-> "clip"]
                             @@ AudioClip(r.clip)
                        ELSE [op |-> "stop_recording", result |-> r.result,
                              samples |-> << >>, channels |-> 0,
                              duration |-> <<0, 1>>]
    /\ UNCHANGED <<graph_vars, capturing, clip_vars, recorded_samples,
                   sample_counter, count_in_bars, tempo, ctl_pc, cb_vars, last,
                   mix_vars, lock_vars, fed, next_track_id, api_result,
                   synth_vars,
                   ext_vars>>

\* a recorder whose tempo and count-in were set before the first recording
InitRecorder ==
    /\ state = "Stopped"
    /\ playhead_samples = 0
    /\ stream_playing = FALSE
    /\ capturing = FALSE
    /\ clips = << >>
    /\ next_clip_id = 0
    /\ rec_state = "Idle"
    /\ recorded_samples = << >>
    /\ sample_counter = 0
    /\ count_in_bars \in CountInInputs \cup {DefaultCountIn}
    /\ tempo \in {Clamp(bpm, MinTempo, MaxTempo) : bpm \in TempoInputs}
    /\ ctl_pc = "idle"
    /\ cb_pc = "idle"
    /\ cb_is_playing = FALSE
    /\ cb_frames = 0
    /\ cb_frame_idx = 0
    /\ pf_state = "Idle"
    /\ pf_idx = 0
    /\ last = [op |-> "new", result |-> "ok", old |-> 0, clip |-> << >>]
    /\ tracks = MasterOnly
    /\ next_track_id = 1
    /\ effects = [id \in {} |-> "none"]
    /\ next_effect_id = 0
    /\ rt_out = [playhead |-> 0, frames |-> << >>]
    /\ off_out = << >>
    /\ LocksFree
    /\ AuxIdle

NextRecorder ==
    \/ recorder_start_recording
    \/ \E in \in Inputs, is_playing \in BOOLEAN :
           recorder_process_frame(in, is_playing)
    \/ recorder_stop_recording

SpecRecorder == InitRecorder /\ [][NextRecorder]_vars

\* C11: with no count-in, stop_recording after start_recording and n >= 1
\* process_frame calls returns a 2-channel clip whose samples are the n input
\* pairs in the order they were fed, l1, r1, ..., ln, rn, and whose
\* duration is n frames of the sample rate.
C11_ClipIsWhatWasFed ==
    [][(recorder_stop_recording /\ rec_state = "Recording"
        /\ count_in_bars = 0 /\ fed # << >>) =>
         /\ rec_ret'.result = "clip"
         /\ rec_ret'.channels = 2
         /\ rec_ret'.samples = fed
         /\ Len(rec_ret'.samples) = 2 * (Len(fed) \div 2)
         /\ rec_ret'.duration[1] * SampleRate
              = (Len(fed) \div 2) * rec_ret'.duration[2]]_vars

C11_Witness ==
    /\ rec_ret.op = "stop_recording"
    /\ rec_ret.result = "clip"
    /\ count_in_bars = 0
    /\ Len(fed) = 2 * MaxFed
    /\ fed[1] # fed[3]
    /\ rec_ret.samples = fed

----------------------------------------------------------------------------
(* Specification of a count-in: the tempo and the count-in are set once, *)
(* and the transport is never stopped                                     *)

\* the engine after set_count_in_bars of a count-in and set_tempo of the
\* fastest tempo
InitCountIn ==
    /\ state = "Stopped"
    /\ playhead_samples = 0
    /\ stream_playing = FALSE
    /\ capturing = FALSE
    /\ clips = << >>
    /\ next_clip_id = 0
    /\ rec_state = "Idle"
    /\ recorded_samples = << >>
    /\ sample_counter = 0
    /\ count_in_bars \in CountInInputs \ {0}
    /\ tempo = MaxTempo
    /\ ctl_pc = "idle"
    /\ cb_pc = "idle"
    /\ cb_is_playing = FALSE
    /\ cb_frames = 0
    /\ cb_frame_idx = 0
    /\ pf_state = "Idle"
    /\ pf_idx = 0
    /\ last = [op |-> "new", result |-> "ok", old |-> 0, clip |-> << >>]
    /\ tracks = MasterOnly
    /\ next_track_id = 1
    /\ effects = [id \in {} |-> "none"]
    /\ next_effect_id = 0
    /\ rt_out = [playhead |-> 0, frames |-> << >>]
    /\ off_out = << >>
    /\ LocksFree
    /\ AuxIdle

NextCountIn ==
    \/ play
    \/ pause_begin
    \/ pause_finish
    \/ start_recording
    \/ stop_recording
    \/ \E n \in 1..MaxFrames : callback_begin(n)
    \/ pf_begin
    \/ pf_act
    \/ callback_end

SpecCountIn == InitCountIn /\ [][NextCountIn]_vars

\* C12: after start_recording with a count-in of b > 0 bars, and with no
\* transport stop, tempo change or count-in change, the recorder stays
\* CountingIn while the sample counter is below b * samples_per_bar: it
\* becomes Recording only once the counter has reached that value.
C12_CountInRunsItsLength ==
    [][(rec_state = "CountingIn" /\ rec_state' = "Recording") =>
         sample_counter >= count_in_bars * SamplesPerBar(tempo)]_vars

----------------------------------------------------------------------------
(* Specification of the track and effect registries: tracks are created,  *)
(* deleted and set, effects are added and removed, projects are restored  *)

\* track ids the registry may hand out
MaxTrackIds == 3
\* effect ids the registry may hand out
MaxEffectIds == 3

\* arguments the model passes to the registry calls
TrackTypeInputs == {"Audio", "MASTER", "master", "tape"}
TrackIdInputs == 0..MaxTrackIds
\* the tracks whose volume and pan the model sets: the master and the first
\* track, while it exists and when it does not
SetTrackInputs == {0, 1}
TrackVolumeInputs == {-200, 0, 100}
TrackPanInputs == {-5, 0, 5}
EffectIdInputs == 0..(MaxEffectIds - 1)
AddEffectInputs == {"Compressor", "phaser"}

\* a track of a project file
TrackData(type, volume_db, pan, mute, fx_chain) ==
    [track_type |-> type, volume_db |-> volume_db, pan |-> pan, mute |-> mute,
     solo |-> FALSE, fx_chain |-> fx_chain]

\* the project files the model loads
ProjectInputs ==
    {[tempo |-> 500,
      tracks |-> <<TrackData("Master", 100, 0, FALSE, << >>),
                   TrackData("Audio", 0, -5, FALSE,
                             <<"phaser", "compressor">>)>>],
     [tempo |-> DefaultTempo,
      tracks |-> <<TrackData("Tape", 0, 0, FALSE, <<"compressor">>),
                   TrackData("Master", 0, 0, FALSE, <<"compressor">>),
                   TrackData("Master", 0, 0, FALSE, << >>)>>]}

\* the track types create_track parses, and what it makes of them
TrackTypeOf(lower) ==
    CASE lower = "audio" -> "Audio"
      [] lower = "midi" -> "Midi"
      [] lower = "return" -> "Return"
      [] lower = "group" -> "Group"
      [] OTHER -> "none"

\* TrackManager::create_track: the track is stored under the next id
TrackManager_create_track(registry, type) ==
    [tracks |-> [t \in DOMAIN registry.tracks \cup {registry.next_id} |->
                     IF t = registry.next_id THEN NewTrack(type, << >>)
                     ELSE registry.tracks[t]],
     next_id |-> registry.next_id + 1,
     id |-> registry.next_id]

\* TrackManager::remove_track: the master track is never removed
TrackManager_remove_track(registry, t) ==
    IF t \notin DOMAIN registry \/ registry[t].track_type = "Master"
    THEN [removed |-> FALSE, tracks |-> registry]
    ELSE [removed |-> TRUE,
          tracks |-> [u \in DOMAIN registry \ {t} |-> registry[u]]]

\* (mutant) create_track without the rejection of "master"
create_track_allows_master(track_type_str) ==
    LET lower == to_lowercase(track_type_str)
        type == IF lower = "master" THEN "Master" ELSE TrackTypeOf(lower)
    IN  /\ IF type = "none"
           THEN /\ api_result' = "err"
                /\ UNCHANGED <<tracks, next_track_id>>
           ELSE LET created == TrackManager_create_track(
                                   [tracks |-> tracks, next_id |-> next_track_id],
                                   type)
                IN  /\ tracks' = created.tracks
                    /\ next_track_id' = created.next_id
                    /\ api_result' = "ok"
        /\ UNCHANGED <<graph_vars, capturing, clip_vars, recorder_vars, ctl_pc,
                       cb_vars, last, effects, next_effect_id, rt_out, off_out,
                       lock_vars, probe_vars, ext_vars, synth_vars>>

\* api::create_track
create_track(track_type_str) ==
    LET lower == to_lowercase(track_type_str)
        type == IF lower = "master" THEN "none" ELSE TrackTypeOf(lower)
    IN  /\ IF type = "none"
           THEN /\ api_result' = "err"
                /\ UNCHANGED <<tracks, next_track_id>>
           ELSE LET created == TrackManager_create_track(
                                   [tracks |-> tracks, next_id |-> next_track_id],
                                   type)
                IN  /\ tracks' = created.tracks
                    /\ next_track_id' = created.next_id
                    /\ api_result' = "ok"
        /\ UNCHANGED <<graph_vars, capturing, clip_vars, recorder_vars, ctl_pc,
                       cb_vars, last, effects, next_effect_id, rt_out, off_out,
                       lock_vars, probe_vars, ext_vars, synth_vars>>

\* api::delete_track
delete_track(t) ==
    /\ tracks' = TrackManager_remove_track(tracks, t).tracks
    /\ api_result' = IF TrackManager_remove_track(tracks, t).removed
                     THEN "ok" ELSE "err"
    /\ UNCHANGED <<graph_vars, capturing, clip_vars, recorder_vars, ctl_pc,
                   cb_vars, last, effects, next_effect_id, rt_out, off_out,
                   lock_vars, probe_vars, ext_vars, next_track_id, synth_vars>>

\* Iterator::position: the first index of id in the chain, 0 when absent
position(fx_chain, id) ==
    IF \E i \in 1..Len(fx_chain) : fx_chain[i] = id
    THEN CHOOSE i \in 1..Len(fx_chain) :
             /\ fx_chain[i] = id
             /\ \A j \in 1..(i - 1) : fx_chain[j] # id
    ELSE 0

\* Vec::remove
remove(vec, pos) ==
    [i \in 1..(Len(vec) - 1) |-> IF i < pos THEN vec[i] ELSE vec[i + 1]]

\* api::remove_effect_from_track
remove_effect_from_track(t, effect_id) ==
    /\ IF t \in DOMAIN tracks /\ position(tracks[t].fx_chain, effect_id) > 0
       THEN /\ tracks' = [tracks EXCEPT ![t].fx_chain =
                             remove(@, position(@, effect_id))]
            /\ effects' = EffectManager_remove_effect(effects, effect_id)
            /\ api_result' = "ok"
       ELSE /\ UNCHANGED <<tracks, effects>>
            /\ api_result' = "err"
    /\ UNCHANGED <<graph_vars, capturing, clip_vars, recorder_vars, ctl_pc,
                   cb_vars, last, next_effect_id, rt_out, off_out, lock_vars,
                   probe_vars, ext_vars, next_track_id, synth_vars>>

\* restore_from_project_data: the effects of one track of the project are
\* created and pushed to the FX chain of the track made for it
RECURSIVE restore_effects(_, _, _)
restore_effects(fx_chain, reg, track_id) ==
    IF fx_chain = << >> THEN reg
    ELSE IF Head(fx_chain) \notin EffectTypes
    THEN restore_effects(Tail(fx_chain), reg, track_id)
    ELSE LET created == EffectManager_create_effect(
                            [effects |-> reg.effects,
                             next_id |-> reg.next_effect_id],
                            Head(fx_chain))
         IN  restore_effects(
                 Tail(fx_chain),
                 [reg EXCEPT
                    !.effects = created.effects,
                    !.next_effect_id = created.next_id,
                    !.tracks = IF track_id \in DOMAIN reg.tracks
                               THEN [reg.tracks EXCEPT ![track_id].fx_chain =
                                         Append(@, created.id)]
                               ELSE reg.tracks],
                 track_id)

\* the track type a project file's string stands for
ProjectTrackType(str) ==
    IF str \in {"Audio", "Midi", "Return", "Group", "Master"} THEN str
    ELSE "Audio"

\* restore_from_project_data: the tracks of the project, in file order
RECURSIVE restore_tracks(_, _)
restore_tracks(track_datas, reg) ==
    IF track_datas = << >> THEN reg
    ELSE LET track_data == Head(track_datas)
             track_type == ProjectTrackType(track_data.track_type)
         IN  IF track_type = "Master"
             THEN restore_tracks(
                      Tail(track_datas),
                      IF 0 \in DOMAIN reg.tracks
                      THEN [reg EXCEPT
                              !.tracks[0].volume_db = track_data.volume_db,
                              !.tracks[0].pan = track_data.pan,
                              !.tracks[0].mute = track_data.mute,
                              !.tracks[0].solo = track_data.solo]
                      ELSE reg)
             ELSE LET created == TrackManager_create_track(
                                     [tracks |-> reg.tracks,
                                      next_id |-> reg.next_track_id],
                                     track_type)
                      set == [created.tracks EXCEPT
                                ![created.id].volume_db = track_data.volume_db,
                                ![created.id].pan = track_data.pan,
                                ![created.id].mute = track_data.mute,
                                ![created.id].solo = track_data.solo]
                  IN  restore_tracks(
                          Tail(track_datas),
                          restore_effects(
                              track_data.fx_chain,
                              [reg EXCEPT !.tracks = set,
                                          !.next_track_id = created.next_id],
                              created.id))

\* the registries after the non-master tracks are removed
cleared_tracks ==
    [t \in {u \in DOMAIN tracks :
              u = 0 \/ ~TrackManager_remove_track(tracks, u).removed} |->
        tracks[t]]

\* the registries restore_from_project_data leaves
restored(project) ==
    restore_tracks(project.tracks,
                   [tracks |-> cleared_tracks, next_track_id |-> next_track_id,
                    effects |-> effects, next_effect_id |-> next_effect_id])

\* AudioGraph::restore_from_project_data: the transport is stopped, the
\* non-master tracks are removed, the tempo is set, and the tracks of the
\* project and their effects are recreated
restore_from_project_data(project) ==
    /\ ctl_pc = "idle"
    /\ state' = "Stopped"
    /\ stream_playing' = FALSE
    /\ playhead_samples' = 0
    /\ sample_counter' = 0
    /\ last' = [op |-> "stop", result |-> "ok", old |-> playhead_samples,
                clip |-> << >>]
    /\ tempo' = Clamp(project.tempo, MinTempo, MaxTempo)
    /\ LET reg == restored(project)
       IN  /\ reg.next_track_id <= MaxTrackIds + 1
           /\ reg.next_effect_id <= MaxEffectIds
           /\ tracks' = reg.tracks
           /\ next_track_id' = reg.next_track_id
           /\ effects' = reg.effects
           /\ next_effect_id' = reg.next_effect_id
    /\ rt_out' = [playhead |-> 0, frames |-> << >>]
    /\ off_out' = << >>
    /\ api_result' = "ok"
    /\ voices' = all_notes_off_all_tracks(voices)
    /\ UNCHANGED <<capturing, clip_vars, rec_state, recorded_samples,
                   count_in_bars, ctl_pc, cb_vars, lock_vars, probe_vars, ext_vars,
                   cb_playhead>>

\* AudioGraph::new: the registry holds the master track only
InitTracks ==
    /\ state = "Stopped"
    /\ playhead_samples = 0
    /\ stream_playing = FALSE
    /\ capturing = FALSE
    /\ clips = << >>
    /\ next_clip_id = 0
    /\ rec_state = "Idle"
    /\ recorded_samples = << >>
    /\ sample_counter = 0
    /\ count_in_bars = DefaultCountIn
    /\ tempo = DefaultTempo
    /\ ctl_pc = "idle"
    /\ cb_pc = "idle"
    /\ cb_is_playing = FALSE
    /\ cb_frames = 0
    /\ cb_frame_idx = 0
    /\ pf_state = "Idle"
    /\ pf_idx = 0
    /\ last = [op |-> "new", result |-> "ok", old |-> 0, clip |-> << >>]
    /\ tracks = MasterOnly
    /\ next_track_id = 1
    /\ effects = [id \in {} |-> "none"]
    /\ next_effect_id = 0
    /\ rt_out = [playhead |-> 0, frames |-> << >>]
    /\ off_out = << >>
    /\ LocksFree
    /\ AuxIdle

NextTracks ==
    \/ \E type \in TrackTypeInputs :
           next_track_id <= MaxTrackIds /\ create_track(type)
    \/ \E t \in TrackIdInputs : delete_track(t)
    \/ \E t \in SetTrackInputs : \E db \in TrackVolumeInputs :
           set_track_volume(t, db)
    \/ \E t \in SetTrackInputs : \E pan \in TrackPanInputs : set_track_pan(t, pan)
    \/ \E project \in ProjectInputs : restore_from_project_data(project)

SpecTracks == InitTracks /\ [][NextTracks]_vars

\* the tracks of type Master
MasterTracks == {t \in DOMAIN tracks : tracks[t].track_type = "Master"}

\* C13: exactly one track of type Master exists and it has id 0, whatever
\* tracks are created and deleted and whatever projects are restored:
\* create_track of "master" fails, delete_track of id 0 fails, and a restore
\* leaves the set of master tracks as it is.
C13_OneMasterAtIdZero ==
    /\ [](MasterTracks = {0})
    /\ [][/\ \A type \in TrackTypeInputs :
               (create_track(type) /\ to_lowercase(type) = "master") =>
                   api_result' = "err" /\ UNCHANGED tracks
          /\ delete_track(0) => api_result' = "err" /\ UNCHANGED tracks
          /\ \A project \in ProjectInputs :
               restore_from_project_data(project) =>
                   {t \in DOMAIN tracks' : tracks'[t].track_type = "Master"}
                       = MasterTracks]_vars

\* a project with a master entry has been restored over created tracks, and
\* a delete has failed
C13_Witness ==
    /\ tracks[0].volume_db = 100
    /\ Cardinality(DOMAIN tracks) = 2
    /\ next_track_id = MaxTrackIds + 1
    /\ api_result = "err"

C15_VolumeAndPanInRange ==
    \A t \in DOMAIN tracks :
        /\ tracks[t].volume_db >= -96 /\ tracks[t].volume_db <= 6
        /\ tracks[t].pan >= -1 /\ tracks[t].pan <= 1

----------------------------------------------------------------------------
(* Specification of the FX chains: effects are added to and removed from  *)
(* the tracks of restored projects                                        *)

NextEffects ==
    \/ \E t \in TrackIdInputs : \E type \in AddEffectInputs :
           next_effect_id < MaxEffectIds /\ add_effect_to_track(t, type)
    \/ \E t \in TrackIdInputs : \E id \in EffectIdInputs :
           remove_effect_from_track(t, id)
    \/ \E project \in ProjectInputs : restore_from_project_data(project)

SpecEffects == InitTracks /\ [][NextEffects]_vars

\* C16: no effect id is in the FX chains of two tracks, and none is twice in
\* one chain, whatever effects are added and removed and whatever projects
\* are restored.
C16_EffectIdsAreOwnedOnce ==
    /\ \A t, u \in DOMAIN tracks :
           t # u => \A i \in 1..Len(tracks[t].fx_chain) :
                        \A j \in 1..Len(tracks[u].fx_chain) :
                            tracks[t].fx_chain[i] # tracks[u].fx_chain[j]
    /\ \A t \in DOMAIN tracks :
           \A i, j \in 1..Len(tracks[t].fx_chain) :
               i # j => tracks[t].fx_chain[i] # tracks[t].fx_chain[j]

\* the master and a restored track both hold effects, one of them two
C16_Witness ==
    /\ tracks[0].fx_chain # << >>
    /\ \E t \in DOMAIN tracks \ {0} : tracks[t].fx_chain # << >>
    /\ \E t \in DOMAIN tracks : Len(tracks[t].fx_chain) = 2

\* C17: add_effect_to_track of a track id that does not exist returns an
\* error and leaves the effect registry as it was: no effect is created.
C17_FailedAddRegistersNothing ==
    [][\A t \in TrackIdInputs : \A type \in AddEffectInputs :
         (add_effect_to_track(t, type) /\ t \notin DOMAIN tracks) =>
             /\ api_result' = "err"
             /\ UNCHANGED <<effects, next_effect_id>>]_vars

----------------------------------------------------------------------------
(* Specification of one track synthesizer: notes are played and samples   *)
(* are processed                                                          *)

\* TrackSynthManager::note_on on the synth of the track
synth_note_on(note) ==
    /\ voices' = TrackSynthesizer_note_on(voices, note)
    /\ UNCHANGED <<graph_vars, capturing, clip_vars, recorder_vars, ctl_pc,
                   cb_vars, last, mix_vars, lock_vars, probe_vars, ext_vars,
                   next_track_id, api_result, cb_playhead>>

\* TrackSynthManager::note_off on the synth of the track
synth_note_off(note) ==
    /\ voices' = TrackSynthesizer_note_off(voices, note)
    /\ UNCHANGED <<graph_vars, capturing, clip_vars, recorder_vars, ctl_pc,
                   cb_vars, last, mix_vars, lock_vars, probe_vars, ext_vars,
                   next_track_id, api_result, cb_playhead>>

\* TrackSynthManager::process_sample on the synth of the track
synth_process_sample ==
    /\ voices' = TrackSynthesizer_process_sample(voices)
    /\ UNCHANGED <<graph_vars, capturing, clip_vars, recorder_vars, ctl_pc,
                   cb_vars, last, mix_vars, lock_vars, probe_vars, ext_vars,
                   next_track_id, api_result, cb_playhead>>

NextSynth ==
    \/ \E note \in NoteInputs : synth_note_on(note)
    \/ \E note \in NoteInputs : synth_note_off(note)
    \/ synth_process_sample

SpecSynth == InitTracks /\ [][NextSynth]_vars

C19_NoteLifetime ==
    /\ [][\A note \in NoteInputs :
            /\ synth_note_on(note) =>
                   Cardinality({i \in 1..MaxVoices : voices'[i].is_active})
                       >= 1
            /\ synth_note_off(note) =>
                   \A i \in 1..MaxVoices :
                       (voices[i].is_active /\ voices[i].note = note) =>
                           /\ voices'[i].is_active
                           /\ voices'[i].state = "Release"]_vars
    /\ [](\A i \in 1..MaxVoices :
              (voices[i].is_active /\ voices[i].since_off >= 0) =>
                  voices[i].since_off < ReleaseSamples + 2)

\* a voice released from full level has taken every sample the bound allows
C19_Witness ==
    \E i \in 1..MaxVoices :
        /\ voices[i].is_active
        /\ voices[i].since_off = ReleaseSamples + 1
        /\ voices[i].state = "Idle"

----------------------------------------------------------------------------
(* Specification of MIDI playback: track 1 holds a MIDI clip and a synth, *)
(* the transport is played and stopped while the callback runs            *)

\* the MIDI clip add_midi_clip_to_track has put on track 1: one note that
\* starts at sample 1 of the timeline and ends at sample 2
MidiClip ==
    [start |-> 0, duration_samples |-> 2,
     events |-> <<[timestamp_samples |-> 1, type |-> "NoteOn", note |-> 60],
                  [timestamp_samples |-> 2, type |-> "NoteOff", note |-> 60]>>]

\* the callback is entered: it reads the transport state and the playhead
midi_callback_begin(n) ==
    /\ cb_pc = "idle"
    /\ stream_playing
    /\ state = "Playing" => playhead_samples + n <= MaxPlayhead
    /\ cb_is_playing' = (state = "Playing")
    /\ cb_frames' = n
    /\ cb_frame_idx' = 0
    /\ cb_playhead' = playhead_samples
    /\ cb_pc' = IF state = "Playing" THEN "midi" ELSE "end"
    /\ UNCHANGED <<graph_vars, capturing, clip_vars, recorder_vars, ctl_pc,
                   pf_state, pf_idx, last, mix_vars, lock_vars, probe_vars, ext_vars,
                   next_track_id, api_result, voices>>

\* the events of the clip that fall on a frame are sent to the synth, in
\* the order of the clip
RECURSIVE dispatch_events(_, _, _)
dispatch_events(events, frame_in_clip, vs) ==
    IF events = << >> THEN vs
    ELSE dispatch_events(
             Tail(events), frame_in_clip,
             IF Head(events).timestamp_samples # frame_in_clip THEN vs
             ELSE IF Head(events).type = "NoteOn"
                  THEN TrackSynthesizer_note_on(vs, Head(events).note)
                  ELSE TrackSynthesizer_note_off(vs, Head(events).note))

\* a frame of the playing callback, first part: the MIDI clip of the track
midi_dispatch ==
    /\ cb_pc = "midi"
    /\ LET playhead_frame == cb_playhead + cb_frame_idx
       IN  voices' = IF /\ playhead_frame >= MidiClip.start
                        /\ playhead_frame
                             <= MidiClip.start + MidiClip.duration_samples
                     THEN dispatch_events(MidiClip.events,
                                          playhead_frame - MidiClip.start,
                                          voices)
                     ELSE voices
    /\ cb_pc' = "synth"
    /\ UNCHANGED <<graph_vars, capturing, clip_vars, recorder_vars, ctl_pc,
                   cb_is_playing, cb_frames, cb_frame_idx, pf_state, pf_idx,
                   last, mix_vars, lock_vars, probe_vars, ext_vars, next_track_id,
                   api_result, cb_playhead>>

\* a frame of the playing callback, second part: the synth of the track
midi_process ==
    /\ cb_pc = "synth"
    /\ voices' = TrackSynthesizer_process_sample(voices)
    /\ cb_frame_idx' = cb_frame_idx + 1
    /\ cb_pc' = IF cb_frame_idx + 1 = cb_frames THEN "end" ELSE "midi"
    /\ UNCHANGED <<graph_vars, capturing, clip_vars, recorder_vars, ctl_pc,
                   cb_is_playing, cb_frames, pf_state, pf_idx, last, mix_vars,
                   lock_vars, probe_vars, ext_vars, next_track_id, api_result,
                   cb_playhead>>

\* AudioGraph::new, then create_track of a MIDI track with its synth and clip
InitMidi ==
    /\ state = "Stopped"
    /\ playhead_samples = 0
    /\ stream_playing = FALSE
    /\ capturing = FALSE
    /\ clips = << >>
    /\ next_clip_id = 0
    /\ rec_state = "Idle"
    /\ recorded_samples = << >>
    /\ sample_counter = 0
    /\ count_in_bars = DefaultCountIn
    /\ tempo = DefaultTempo
    /\ ctl_pc = "idle"
    /\ cb_pc = "idle"
    /\ cb_is_playing = FALSE
    /\ cb_frames = 0
    /\ cb_frame_idx = 0
    /\ pf_state = "Idle"
    /\ pf_idx = 0
    /\ last = [op |-> "new", result |-> "ok", old |-> 0, clip |-> << >>]
    /\ tracks = MasterOnly @@ (1 :> NewTrack("Midi", << >>))
    /\ next_track_id = 2
    /\ effects = [id \in {} |-> "none"]
    /\ next_effect_id = 0
    /\ rt_out = [playhead |-> 0, frames |-> << >>]
    /\ off_out = << >>
    /\ LocksFree
    /\ AuxIdle

NextMidi ==
    \/ play
    \/ stop_begin
    \/ stop_finish
    \/ \E n \in 1..MaxFrames : midi_callback_begin(n)
    \/ midi_dispatch
    \/ midi_process
    \/ callback_end

SpecMidi == InitMidi /\ [][NextMidi]_vars

\* C20: once stop() has returned and the callback that was in flight has
\* finished, no voice of the track synth is sounding, until the next play().
C20_StopSilencesSynths ==
    (state = "Stopped" /\ ctl_pc = "idle" /\ cb_pc = "idle") =>
        \A i \in 1..MaxVoices : ~voices[i].is_active

----------------------------------------------------------------------------
(* Specification of the metering: the project of two audio tracks is       *)
(* playing, the mixer is set and the metronome is switched on and off      *)

\* the length of the metronome click in samples (4000 of 48000 a second)
ClickSamples == 2

Abs(x) == IF x < 0 THEN -x ELSE x
Max(a, b) == IF a >= b THEN a ELSE b

\* process_frame: metronome_output at sample_idx. The click is a decaying
\* sine burst at the start of each beat, of a higher pitch on the downbeat;
\* the integer stands for sin(2 pi freq t) * 0.6 * envelope, zero at t = 0.
metronome_output(sample_idx, enabled) ==
    LET position_in_bar == sample_idx % SamplesPerBar(tempo)
        beat_in_bar == position_in_bar \div SamplesPerBeat(tempo)
        position_in_beat == position_in_bar % SamplesPerBeat(tempo)
        freq == IF beat_in_bar = 0 THEN 3 ELSE 2
        envelope == ClickSamples - position_in_beat
    IN  IF enabled /\ position_in_beat < ClickSamples
        THEN position_in_beat * freq * envelope
        ELSE 0

\* the larger of the absolute values f[i][ch], i in 1..n, and 0
RECURSIVE peak_of(_, _, _)
peak_of(f, n, ch) ==
    IF n = 0 THEN 0 ELSE Max(peak_of(f, n - 1, ch), Abs(f[n][ch]))

\* Track::update_peaks: the meter of track t keeps the largest value it was
\* given (a track that was never metered reads zero)
Track_update_peaks(t, peak) ==
    LET held == IF t \in DOMAIN peaks THEN peaks[t] ELSE <<0, 0>>
    IN  <<Max(held[1], peak[1]), Max(held[2], peak[2])>>

\* (mutant) the callback metering the master after the metronome is added
playing_buffer_meters_output(n, enabled) ==
    LET frames == [i \in 1..n |-> rt_frame(playhead_samples + i - 1)]
        met == [i \in 1..n |-> metronome_output(sample_counter + i - 1, enabled)]
        data == [i \in 1..n |-> <<frames[i].out[1] + met[i],
                                  frames[i].out[2] + met[i]>>]
        mixed == frames[1].mixed
        track_peaks == [t \in mixed |->
                           <<peak_of([i \in 1..n |-> frames[i].contrib[t]], n, 1),
                             peak_of([i \in 1..n |-> frames[i].contrib[t]], n, 2)>>]
        master_peak == <<peak_of(data, n, 1), peak_of(data, n, 2)>>
    IN  [frames |-> frames, data |-> data, met |-> met, enabled |-> enabled,
         peaks |-> [t \in DOMAIN peaks \cup mixed \cup {MasterId} |->
                       IF t = MasterId THEN Track_update_peaks(t, master_peak)
                       ELSE IF t \in mixed
                            THEN Track_update_peaks(t, track_peaks[t])
                            ELSE peaks[t]]]

\* the callback while Playing, for a buffer of n frames: the frames mixed
\* from the snapshot, the metronome of each frame, the data written to the
\* output buffer, and the peaks published after the loop (track_peaks holds
\* the tracks that passed the gate)
playing_buffer(n, enabled) ==
    LET frames == [i \in 1..n |-> rt_frame(playhead_samples + i - 1)]
        met == [i \in 1..n |-> metronome_output(sample_counter + i - 1, enabled)]
        data == [i \in 1..n |-> <<frames[i].out[1] + met[i],
                                  frames[i].out[2] + met[i]>>]
        mixed == frames[1].mixed
        track_peaks == [t \in mixed |->
                           <<peak_of([i \in 1..n |-> frames[i].contrib[t]], n, 1),
                             peak_of([i \in 1..n |-> frames[i].contrib[t]], n, 2)>>]
        limited == [i \in 1..n |-> frames[i].out]
        master_peak == <<peak_of(limited, n, 1), peak_of(limited, n, 2)>>
    IN  [frames |-> frames, data |-> data, met |-> met, enabled |-> enabled,
         peaks |-> [t \in DOMAIN peaks \cup mixed \cup {MasterId} |->
                       IF t = MasterId THEN Track_update_peaks(t, master_peak)
                       ELSE IF t \in mixed
                            THEN Track_update_peaks(t, track_peaks[t])
                            ELSE peaks[t]]]

\* Recorder::set_metronome_enabled
set_metronome_enabled(enabled) ==
    /\ metronome_enabled' = enabled
    /\ UNCHANGED <<graph_vars, capturing, clip_vars, recorder_vars, ctl_pc,
                   cb_vars, last, mix_vars, lock_vars, probe_vars,
                   next_track_id, api_result, synth_vars, peaks, out_buf, twin,
                   meter_rest>>

\* one run of the callback while Playing and not recording, from the read of
\* the state to the advance of the playhead; twin is the run of the same
\* callback from the same state with the metronome switched the other way
metered_callback(n) ==
    /\ state = "Playing"
    /\ stream_playing
    /\ rec_state = "Idle"
    /\ playhead_samples + n <= MaxPlayhead
    /\ sample_counter + n <= MaxCounter
    /\ LET run == playing_buffer(n, metronome_enabled)
           other == playing_buffer(n, ~metronome_enabled)
       IN  /\ rt_out' = [playhead |-> playhead_samples, frames |-> run.frames]
           /\ out_buf' = [data |-> run.data, met |-> run.met,
                          enabled |-> run.enabled]
           /\ peaks' = run.peaks
           /\ twin' = [data |-> other.data, met |-> other.met,
                       enabled |-> other.enabled, peaks |-> other.peaks]
    /\ playhead_samples' = playhead_samples + n
    /\ sample_counter' = sample_counter + n
    /\ UNCHANGED <<state, stream_playing, capturing, clip_vars, rec_state,
                   recorded_samples, count_in_bars, tempo, ctl_pc, cb_vars, last,
                   tracks, effects, next_effect_id, off_out, lock_vars,
                   probe_vars, next_track_id, api_result, synth_vars,
                   metronome_enabled, meter_rest>>

InitMeter ==
    /\ state = "Playing"
    /\ playhead_samples = 0
    /\ stream_playing = TRUE
    /\ capturing = FALSE
    /\ clips = << >>
    /\ next_clip_id = 2
    /\ rec_state = "Idle"
    /\ recorded_samples = << >>
    /\ sample_counter = 0
    /\ count_in_bars = DefaultCountIn
    /\ tempo = DefaultTempo
    /\ ctl_pc = "idle"
    /\ cb_pc = "idle"
    /\ cb_is_playing = FALSE
    /\ cb_frames = 0
    /\ cb_frame_idx = 0
    /\ pf_state = "Idle"
    /\ pf_idx = 0
    /\ last = [op |-> "new", result |-> "ok", old |-> 0, clip |-> << >>]
    /\ tracks = ProjectTracks
    /\ next_track_id = 3
    /\ effects = [id \in {} |-> "none"]
    /\ next_effect_id = 0
    /\ rt_out = [playhead |-> 0, frames |-> << >>]
    /\ off_out = << >>
    /\ LocksFree
    /\ AuxIdle

NextMeter ==
    \/ \E enabled \in BOOLEAN : set_metronome_enabled(enabled)
    \/ \E t \in DOMAIN tracks : \E db \in VolumeInputs : set_track_volume(t, db)
    \/ \E t \in NonMasterIds : \E mute \in BOOLEAN : set_track_mute(t, mute)
    \/ \E t \in NonMasterIds : \E solo \in BOOLEAN : set_track_solo(t, solo)
    \/ \E n \in 1..MaxFrames : metered_callback(n)

SpecMeter == InitMeter /\ [][NextMeter]_vars

\* C21: the peaks the callback publishes at the end of a buffer do not
\* depend on the metronome: the run with the metronome on and the run with it
\* off publish the same master and per-track peaks, and their output buffers
\* differ, frame by frame and channel by channel, by the metronome signal.
C21_PeaksIgnoreMetronome ==
    LET on == IF out_buf.enabled THEN out_buf ELSE twin
        off == IF out_buf.enabled THEN twin ELSE out_buf
    IN  /\ twin.peaks = peaks
        /\ Len(on.data) = Len(off.data)
        /\ \A i \in 1..Len(on.data) :
               /\ off.met[i] = 0
               /\ on.data[i] = <<off.data[i][1] + on.met[i],
                                 off.data[i][2] + on.met[i]>>

\* a buffer was played with the metronome on: a click sounded in it, both
\* tracks and the master were metered above zero
C21_Witness ==
    /\ out_buf.enabled
    /\ \E i \in 1..Len(out_buf.met) : out_buf.met[i] # 0
    /\ \A t \in {1, 2, MasterId} : t \in DOMAIN peaks /\ peaks[t] # <<0, 0>>

----------------------------------------------------------------------------
(* Specification of the MIDI clip editing: clips are recorded to the armed *)
(* MIDI track 1 or created empty, edited in the global store (notes are    *)
(* added, clips are cleared) and synced,                                   *)
(* while the callback takes its snapshot and reads it frame by frame        *)

\* MIDI clips the store may hold
MaxMidiClips == 1
\* events a clip may hold
MaxEvents == 2

\* arguments the model passes to the MIDI clip calls
ClipIdInputs == 0..MaxMidiClips

NoteOn(note, t) == [type |-> "NoteOn", note |-> note, timestamp_samples |-> t]
NoteOff(note, t) == [type |-> "NoteOff", note |-> note, timestamp_samples |-> t]

\* the clip MidiRecorder::stop_recording returns in this specification
RecordedClip == <<NoteOn(60, 0), NoteOff(60, 1)>>

\* the placements of track t
PlacedOn(tm, t) == IF t \in DOMAIN tm THEN tm[t] ELSE << >>

\* Arc::strong_count: the references to allocation a held by the store, by
\* the tracks and by the snapshots of a callback in flight
strong_count(a, store, tm, cb) ==
    Cardinality({i \in DOMAIN store : store[i].clip = a})
    + Cardinality({p \in UNION {{<<t, i>> : i \in DOMAIN tm[t]} : t \in DOMAIN tm} :
                      tm[p[1]][p[2]].clip = a})
    + Cardinality({i \in DOMAIN cb.midi_clips_snapshot :
                      cb.midi_clips_snapshot[i] = a})
    + Cardinality({p \in UNION {{<<t, i>> : i \in DOMAIN cb.track_snapshots[t]} :
                                    t \in DOMAIN cb.track_snapshots} :
                      cb.track_snapshots[p[1]][p[2]].clip = a})

\* an allocation is freed when its last reference is dropped
dropped(heap, store, tm, cb) ==
    [a \in 1..MaxAddrs |->
        IF strong_count(a, store, tm, cb) = 0 THEN << >> ELSE heap[a]]

FreeAddrs == {a \in 1..MaxAddrs :
                 strong_count(a, midi_clips, track_midi_clips, midi_cb) = 0}
\* Arc::new: the address of a fresh allocation
Arc_new == CHOOSE a \in FreeAddrs : \A b \in FreeAddrs : a <= b

\* (mutant) make_mut handing out the shared allocation itself
Arc_make_mut_in_place(a) == a

\* Arc::make_mut: the allocation itself when the reference is the only one,
\* a fresh copy of it otherwise
Arc_make_mut(a) ==
    IF strong_count(a, midi_clips, track_midi_clips, midi_cb) = 1
    THEN a ELSE Arc_new

\* position of the clip with this id in the store, 0 when there is none
find(store, clip_id) ==
    IF \E i \in DOMAIN store : store[i].id = clip_id
    THEN CHOOSE i \in DOMAIN store :
             /\ store[i].id = clip_id
             /\ \A j \in DOMAIN store : store[j].id = clip_id => i <= j
    ELSE 0

\* MidiClip::add_event
MidiClip_add_event(events, event) == Append(events, event)

\* a call has returned; synced is <<clip_id>> for sync_midi_clip_to_track
\* and << >> for every other call
returned(synced) ==
    [pc |-> "idle", addr |-> 0, pending |-> << >>, synced |-> synced]

\* an edit was made while a callback holds its snapshot
edit_counted == [midi_cb EXCEPT !.edited = (midi_cb.pc # "idle")]

midi_unchanged ==
    UNCHANGED <<graph_vars, capturing, recorder_vars, ctl_pc, cb_vars, last,
                mix_vars, lock_vars, probe_vars, next_track_id, api_result,
                synth_vars, clips, midi_rest>>

\* api::stop_midi_recording: the recorded clip is stored, and placed on the
\* armed MIDI track under the same id and the same reference
stop_midi_recording(armed) ==
    /\ midi_call.pc = "idle"
    /\ next_clip_id < MaxMidiClips
    /\ FreeAddrs # {}
    /\ LET clip_arc == Arc_new
           clip_id == next_clip_id
           armed_midi_track_ids ==
               {t \in DOMAIN tracks : tracks[t].track_type = "Midi" /\ armed}
       IN  /\ midi_heap' = [midi_heap EXCEPT ![clip_arc] = RecordedClip]
           /\ midi_clips' = Append(midi_clips, [id |-> clip_id, clip |-> clip_arc,
                                                track_id |-> << >>])
           /\ track_midi_clips' =
                  [t \in DOMAIN track_midi_clips \cup armed_midi_track_ids |->
                      IF t \in armed_midi_track_ids
                      THEN Append(PlacedOn(track_midi_clips, t),
                                  [id |-> clip_id, clip |-> clip_arc, track_id |-> <<t>>])
                      ELSE track_midi_clips[t]]
           /\ next_clip_id' = next_clip_id + 1
           /\ midi_call' = returned(<< >>)
    /\ UNCHANGED midi_cb
    /\ midi_unchanged

\* api::create_midi_clip: an empty clip is stored
create_midi_clip ==
    /\ midi_call.pc = "idle"
    /\ next_clip_id < MaxMidiClips
    /\ FreeAddrs # {}
    /\ midi_heap' = [midi_heap EXCEPT ![Arc_new] = << >>]
    /\ midi_clips' = Append(midi_clips, [id |-> next_clip_id, clip |-> Arc_new,
                                         track_id |-> << >>])
    /\ next_clip_id' = next_clip_id + 1
    /\ midi_call' = returned(<< >>)
    /\ UNCHANGED <<track_midi_clips, midi_cb>>
    /\ midi_unchanged

\* api::add_midi_note_to_clip, up to the first add_event: the clip is looked
\* up, made mutable and given the note-on
add_midi_note_begin(clip_id, note, start_samples, duration_samples) ==
    /\ midi_call.pc = "idle"
    /\ LET pos == find(midi_clips, clip_id)
       IN  IF pos = 0
           THEN /\ midi_call' = returned(<< >>)
                /\ UNCHANGED <<midi_heap, midi_clips, midi_cb>>
           ELSE /\ Len(midi_heap[midi_clips[pos].clip]) + 2 <= MaxEvents
                /\ FreeAddrs # {}
                /\ LET clip_data == Arc_make_mut(midi_clips[pos].clip)
                       store == [midi_clips EXCEPT ![pos].clip = clip_data]
                   IN  /\ midi_clips' = store
                       /\ midi_heap' = dropped(
                              [midi_heap EXCEPT ![clip_data] =
                                  MidiClip_add_event(midi_heap[midi_clips[pos].clip],
                                                     NoteOn(note, start_samples))],
                              store, track_midi_clips, midi_cb)
                       /\ midi_call' =
                              [pc |-> "note_off", addr |-> clip_data,
                               pending |-> <<NoteOff(note, start_samples
                                                          + duration_samples)>>,
                               synced |-> << >>]
                       /\ midi_cb' = edit_counted
    /\ UNCHANGED <<track_midi_clips, next_clip_id>>
    /\ midi_unchanged

\* api::add_midi_note_to_clip, the second add_event and the return
add_midi_note_finish ==
    /\ midi_call.pc = "note_off"
    /\ midi_heap' = [midi_heap EXCEPT ![midi_call.addr] =
                         MidiClip_add_event(@, midi_call.pending[1])]
    /\ midi_call' = returned(<< >>)
    /\ midi_cb' = edit_counted
    /\ UNCHANGED <<midi_clips, track_midi_clips, next_clip_id>>
    /\ midi_unchanged

\* api::clear_midi_clip
clear_midi_clip(clip_id) ==
    /\ midi_call.pc = "idle"
    /\ LET pos == find(midi_clips, clip_id)
       IN  IF pos = 0
           THEN /\ midi_call' = returned(<< >>)
                /\ UNCHANGED <<midi_heap, midi_clips, midi_cb>>
           ELSE /\ FreeAddrs # {}
                /\ LET clip_data == Arc_make_mut(midi_clips[pos].clip)
                       store == [midi_clips EXCEPT ![pos].clip = clip_data]
                   IN  /\ midi_clips' = store
                       /\ midi_heap' = dropped(
                              [midi_heap EXCEPT ![clip_data] = << >>],
                              store, track_midi_clips, midi_cb)
                       /\ midi_call' = returned(<< >>)
                       /\ midi_cb' = edit_counted
    /\ UNCHANGED <<track_midi_clips, next_clip_id>>
    /\ midi_unchanged

\* AudioGraph::sync_midi_clip_to_track: the reference of the store replaces
\* the one of the first placement of the id on the track the stored clip
\* names in its track_id (an Option: << >> is None, <<t>> is Some(t))
sync_midi_clip_to_track(clip_id) ==
    /\ midi_call.pc = "idle"
    /\ LET pos == find(midi_clips, clip_id)
           track_id == IF pos = 0 THEN << >> ELSE midi_clips[pos].track_id
           placed == IF track_id # << >> /\ track_id[1] \in DOMAIN track_midi_clips
                     THEN find(track_midi_clips[track_id[1]], clip_id) ELSE 0
           tm == IF placed = 0 THEN track_midi_clips
                 ELSE [track_midi_clips EXCEPT
                          ![track_id[1]][placed].clip = midi_clips[pos].clip]
       IN  /\ track_midi_clips' = tm
           /\ midi_heap' = dropped(midi_heap, midi_clips, tm, midi_cb)
    /\ midi_call' = returned(<<clip_id>>)
    /\ UNCHANGED <<midi_clips, midi_cb, next_clip_id>>
    /\ midi_unchanged

\* the event lists the placements of a snapshot refer to
events_of(track_snapshots) ==
    [t \in DOMAIN track_snapshots |->
        [i \in DOMAIN track_snapshots[t] |-> midi_heap[track_snapshots[t][i].clip]]]

\* the callback while Playing, up to its frame loop: it clones the store and
\* the MIDI clips of every track (the references, not the clips)
clip_callback_begin ==
    /\ midi_cb.pc = "idle"
    /\ midi_cb' = [pc |-> "frames",
                   midi_clips_snapshot |->
                       [i \in DOMAIN midi_clips |-> midi_clips[i].clip],
                   track_snapshots |-> track_midi_clips,
                   taken |-> events_of(track_midi_clips),
                   seen |-> << >>, edited |-> FALSE]
    /\ UNCHANGED <<midi_heap, midi_clips, track_midi_clips, midi_call,
                   next_clip_id>>
    /\ midi_unchanged

\* one frame of the loop: the events of every clip of the snapshot are read
clip_callback_frame ==
    /\ midi_cb.pc = "frames"
    /\ Len(midi_cb.seen) < MaxFrames
    /\ midi_cb' = [midi_cb EXCEPT !.seen =
                       Append(@, [events |-> events_of(midi_cb.track_snapshots),
                                  edited |-> midi_cb.edited])]
    /\ UNCHANGED <<midi_heap, midi_clips, track_midi_clips, midi_call,
                   next_clip_id>>
    /\ midi_unchanged

\* the callback returns: its snapshots are dropped
clip_callback_end ==
    /\ midi_cb.pc = "frames"
    /\ Len(midi_cb.seen) >= 1
    /\ LET cb == [midi_cb EXCEPT !.pc = "idle", !.midi_clips_snapshot = << >>,
                                 !.track_snapshots = [t \in {} |-> << >>]]
       IN  /\ midi_cb' = cb
           /\ midi_heap' = dropped(midi_heap, midi_clips, track_midi_clips, cb)
    /\ UNCHANGED <<midi_clips, track_midi_clips, midi_call, next_clip_id>>
    /\ midi_unchanged

\* the transport is playing a project of one MIDI track
InitClipEdit ==
    /\ state = "Playing"
    /\ playhead_samples = 0
    /\ stream_playing = TRUE
    /\ capturing = FALSE
    /\ clips = << >>
    /\ next_clip_id = 0
    /\ rec_state = "Idle"
    /\ recorded_samples = << >>
    /\ sample_counter = 0
    /\ count_in_bars = DefaultCountIn
    /\ tempo = DefaultTempo
    /\ ctl_pc = "idle"
    /\ cb_pc = "idle"
    /\ cb_is_playing = FALSE
    /\ cb_frames = 0
    /\ cb_frame_idx = 0
    /\ pf_state = "Idle"
    /\ pf_idx = 0
    /\ last = [op |-> "new", result |-> "ok", old |-> 0, clip |-> << >>]
    /\ tracks = MasterOnly @@ (1 :> NewTrack("Midi", << >>))
    /\ next_track_id = 2
    /\ effects = [id \in {} |-> "none"]
    /\ next_effect_id = 0
    /\ rt_out = [playhead |-> 0, frames |-> << >>]
    /\ off_out = << >>
    /\ LocksFree
    /\ AuxIdle

NextClipEdit ==
    \/ \E armed \in BOOLEAN : stop_midi_recording(armed)
    \/ create_midi_clip
    \/ \E clip_id \in ClipIdInputs : add_midi_note_begin(clip_id, 61, 0, 1)
    \/ add_midi_note_finish
    \/ \E clip_id \in ClipIdInputs : clear_midi_clip(clip_id)
    \/ \E clip_id \in ClipIdInputs : sync_midi_clip_to_track(clip_id)
    \/ clip_callback_begin
    \/ clip_callback_frame
    \/ clip_callback_end

SpecClipEdit == InitClipEdit /\ [][NextClipEdit]_vars

\* C22: a callback that took its track snapshot before a MIDI clip edit
\* reads, in every frame of that buffer, the event lists the clips had when
\* the snapshot was taken, never a mixture of pre-edit and post-edit events.
C22_SnapshotSeesNoEdit ==
    \A i \in 1..Len(midi_cb.seen) : midi_cb.seen[i].events = midi_cb.taken

\* a clip on track 1 was in the snapshot, the clip of that id was edited in
\* the store while the buffer was running, and a later frame of the buffer
\* read the clip
C22_Witness ==
    /\ midi_cb.pc = "frames"
    /\ \E i \in 1..Len(midi_cb.seen) : midi_cb.seen[i].edited
    /\ 1 \in DOMAIN midi_cb.track_snapshots
    /\ \E k \in DOMAIN midi_cb.track_snapshots[1] :
           LET pos == find(midi_clips, midi_cb.track_snapshots[1][k].id)
           IN  /\ pos # 0
               /\ midi_cb.taken[1][k] # << >>
               /\ midi_heap[midi_clips[pos].clip] # midi_cb.taken[1][k]

\* C23: when sync_midi_clip_to_track(clip_id) has returned for a clip of the
\* store, every placement of that clip id on a track refers to the clip of
\* the store: its event list is the one in global storage, edits included.
C23_SyncedTrackSeesEdit ==
    (midi_call.pc = "idle" /\ midi_call.synced # << >>) =>
        LET pos == find(midi_clips, midi_call.synced[1])
        IN  pos # 0 =>
                \A t \in DOMAIN track_midi_clips :
                    \A i \in DOMAIN track_midi_clips[t] :
                        track_midi_clips[t][i].id = midi_call.synced[1] =>
                            midi_heap[track_midi_clips[t][i].clip]
                                = midi_heap[midi_clips[pos].clip]

----------------------------------------------------------------------------
(* Specification of the FX chain with native plugins: track 1 holds a      *)
(* chain of built-in and VST3 effects, and frames are run through it        *)

\* the stereo pairs the model runs through the chain
FrameInputs == {<<1, 2>>, <<6, -8>>, <<-3, 0>>}
\* the types of the effects of the chain
ChainTypeInputs == {"vst3", "compressor"}

\* VST3Plugin::process_audio on a buffer of one frame: the native call
\* reports success or failure, and the plugin of the model writes the
\* swapped and inverted input to the output buffers either way
VST3Plugin_process_audio(lr, fails) ==
    [ok |-> ~fails, output |-> <<-lr[2], -lr[1]>>]

\* (mutant) process_frame returning the output buffers whatever was reported
VST3Effect_process_frame_unchecked(lr, fails) ==
    VST3Plugin_process_audio(lr, fails).output

\* VST3Effect::process_frame: the output buffers on Ok, the input on Err
VST3Effect_process_frame(lr, fails) ==
    LET result == VST3Plugin_process_audio(lr, fails)
    IN  IF result.ok THEN result.output ELSE lr

\* the FX chain loop of the callback on one frame, effect by effect: an id
\* the registry does not hold is skipped; failing holds the positions of
\* the chain whose native call fails on this frame
RECURSIVE fx_chain_steps(_, _, _, _)
fx_chain_steps(fx_chain, lr, pos, failing) ==
    IF pos > Len(fx_chain) THEN << >>
    ELSE IF fx_chain[pos] \notin DOMAIN effects
         THEN fx_chain_steps(fx_chain, lr, pos + 1, failing)
         ELSE LET type == effects[fx_chain[pos]]
                  out == IF type = "vst3"
                         THEN VST3Effect_process_frame(lr, pos \in failing)
                         ELSE Effect_process_frame(type, lr)
              IN  <<[effect_id |-> fx_chain[pos], type |-> type, in |-> lr,
                     out |-> out,
                     failed |-> (type = "vst3" /\ pos \in failing)]>>
                  \o fx_chain_steps(fx_chain, out, pos + 1, failing)

\* the callback runs the FX chain of track t on one frame
fx_chain_frame(t, lr, failing) ==
    /\ fx_trace' = <<[in |-> lr,
                      steps |-> fx_chain_steps(tracks[t].fx_chain, lr, 1, failing)]>>
    /\ UNCHANGED <<graph_vars, capturing, clip_vars, recorder_vars, ctl_pc,
                   cb_vars, last, mix_vars, lock_vars, probe_vars, next_track_id,
                   api_result, synth_vars, fx_trace_rest>>

\* the chains of the model: up to MaxEffectIds effects, registered in order
ChainInputs ==
    UNION {[1..n -> ChainTypeInputs] : n \in 1..MaxEffectIds}

\* a project whose track 1 holds one of the chains
InitPlugin ==
    /\ state = "Playing"
    /\ playhead_samples = 0
    /\ stream_playing = TRUE
    /\ capturing = FALSE
    /\ clips = << >>
    /\ next_clip_id = 0
    /\ rec_state = "Idle"
    /\ recorded_samples = << >>
    /\ sample_counter = 0
    /\ count_in_bars = DefaultCountIn
    /\ tempo = DefaultTempo
    /\ ctl_pc = "idle"
    /\ cb_pc = "idle"
    /\ cb_is_playing = FALSE
    /\ cb_frames = 0
    /\ cb_frame_idx = 0
    /\ pf_state = "Idle"
    /\ pf_idx = 0
    /\ last = [op |-> "new", result |-> "ok", old |-> 0, clip |-> << >>]
    /\ \E chain \in ChainInputs :
           /\ effects = [id \in 0..(Len(chain) - 1) |-> chain[id + 1]]
           /\ next_effect_id = Len(chain)
           /\ tracks = MasterOnly @@
                  (1 :> [NewTrack("Audio", << >>) EXCEPT
                            !.fx_chain = [i \in 1..Len(chain) |-> i - 1]])
    /\ next_track_id = 2
    /\ rt_out = [playhead |-> 0, frames |-> << >>]
    /\ off_out = << >>
    /\ LocksFree
    /\ AuxIdle

NextPlugin ==
    \E lr \in FrameInputs : \E failing \in SUBSET (1..MaxEffectIds) :
        fx_chain_frame(1, lr, failing)

SpecPlugin == InitPlugin /\ [][NextPlugin]_vars

\* C24: when the processing call of a native-plugin effect fails for a
\* frame, the effect returns its input pair unchanged for that frame, and the
\* remaining effects of the chain still run, each on the value before it.
C24_FailedPluginPassesThrough ==
    \A r \in DOMAIN fx_trace :
        LET steps == fx_trace[r].steps
        IN  /\ Len(steps) = Len(tracks[1].fx_chain)
            /\ \A k \in DOMAIN steps :
                   /\ steps[k].in = IF k = 1 THEN fx_trace[r].in ELSE steps[k - 1].out
                   /\ steps[k].failed => steps[k].out = steps[k].in
                   /\ (steps[k].type = "vst3" /\ ~steps[k].failed) =>
                          steps[k].out = VST3Plugin_process_audio(steps[k].in, FALSE).output
                   /\ steps[k].type # "vst3" =>
                          steps[k].out = Effect_process_frame(steps[k].type, steps[k].in)

\* the first plugin of a chain failed on a frame, and a compressor and a
\* working plugin after it changed the value it passed on
C24_Witness ==
    \E r \in DOMAIN fx_trace :
        LET steps == fx_trace[r].steps
        IN  /\ Len(steps) = 3
            /\ steps[1].failed
            /\ steps[2].type = "compressor" /\ steps[2].out # steps[2].in
            /\ steps[3].type = "vst3" /\ ~steps[3].failed
            /\ steps[3].out # steps[3].in

----------------------------------------------------------------------------
(* Specification of the transport calls and the callback, the metronome on: *)
(* play, pause and stop in any order while the stream runs the callback     *)

\* transport_play, logged: what play() found, did and returned
transport_play ==
    /\ ctl_pc = "idle"
    /\ state' = AudioGraph_play.state
    /\ stream_playing' = AudioGraph_play.stream
    /\ call_log' = [NoCall EXCEPT !.op = "play", !.was = state,
                                  !.result = AudioGraph_play.result,
                                  !.started = AudioGraph_play.started,
                                  !.playhead = playhead_samples]
    /\ UNCHANGED <<playhead_samples, capturing, clip_vars, recorder_vars, ctl_pc,
                   cb_vars, last, mix_vars, lock_vars, probe_vars, next_track_id,
                   api_result, synth_vars, call_log_rest>>

\* AudioGraph::new and Recorder::new: the metronome is enabled
InitTransport ==
    /\ state = "Stopped"
    /\ playhead_samples = 0
    /\ stream_playing = FALSE
    /\ capturing = FALSE
    /\ clips = << >>
    /\ next_clip_id = 0
    /\ rec_state = "Idle"
    /\ recorded_samples = << >>
    /\ sample_counter = 0
    /\ count_in_bars = DefaultCountIn
    /\ tempo = DefaultTempo
    /\ ctl_pc = "idle"
    /\ cb_pc = "idle"
    /\ cb_is_playing = FALSE
    /\ cb_frames = 0
    /\ cb_frame_idx = 0
    /\ pf_state = "Idle"
    /\ pf_idx = 0
    /\ last = [op |-> "new", result |-> "ok", old |-> 0, clip |-> << >>]
    /\ tracks = MasterOnly
    /\ next_track_id = 1
    /\ effects = [id \in {} |-> "none"]
    /\ next_effect_id = 0
    /\ rt_out = [playhead |-> 0, frames |-> << >>]
    /\ off_out = << >>
    /\ LocksFree
    /\ RecorderUntouched
    /\ api_result = "ok"
    /\ voices = NewVoices
    /\ cb_playhead = 0
    /\ metronome_enabled = TRUE
    /\ peaks = [t \in {} |-> <<0, 0>>]
    /\ out_buf = [data |-> << >>, met |-> << >>, enabled |-> FALSE]
    /\ twin = [data |-> << >>, met |-> << >>, enabled |-> TRUE,
               peaks |-> [t \in {} |-> <<0, 0>>]]
    /\ MidiIdle
    /\ fx_trace = << >>
    /\ call_log = NoCall
    /\ mutexes = NoOwners
    /\ midi_rec = MidiRecorder_new

NextTransport ==
    \/ transport_play
    \/ pause_begin
    \/ pause_finish
    \/ stop_begin
    \/ stop_finish
    \/ \E enabled \in BOOLEAN : set_metronome_enabled(enabled)
    \/ \E n \in 1..MaxFrames : callback_begin(n)
    \/ pf_begin
    \/ pf_act
    \/ callback_end

SpecTransport == InitTransport /\ [][NextTransport]_vars

\* C25: play() is idempotent: when the transport is already Playing, a
\* second play() returns success, leaves the transport state Playing and the
\* playhead untouched, and does not issue another start of the output stream.
C25_PlayIsIdempotent ==
    [][(transport_play /\ state = "Playing") =>
         /\ call_log'.result = "ok"
         /\ state' = "Playing"
         /\ playhead_samples' = playhead_samples
         /\ stream_playing' = stream_playing
         /\ ~call_log'.started]_vars

\* play() was called on a transport that was Playing with the playhead
\* advanced by the callback
C25_Witness ==
    /\ call_log.op = "play"
    /\ call_log.was = "Playing"
    /\ call_log.playhead > 0
    /\ playhead_samples = call_log.playhead
    /\ state = "Playing"

\* C28: with the metronome enabled, the transport Stopped or Paused and the
\* recorder Idle, each per-frame recorder call made by the audio callback
\* still advances the beat position by one sample.
C28_MetronomeTicksWhenNotPlaying ==
    [][(pf_begin /\ metronome_enabled /\ ~cb_is_playing
        /\ state \in {"Stopped", "Paused"} /\ rec_state = "Idle") =>
         sample_counter' = sample_counter + 1]_vars

----------------------------------------------------------------------------
(* Specification of seek and get_playhead_position at the tempos of the    *)
(* recorder, with the callback advancing the playhead in between           *)

\* the seconds the model passes to seek are counted in ticks of
\* 1 / TicksPerSecond seconds, up to MaxSeekTicks of them
TicksPerSecond == 10
MaxSeekTicks == 5
\* the arguments of set_tempo in this specification
SeekTempoInputs == {MinTempo, 60, DefaultTempo, 500}

\* (mutant) seek without the reverse scaling by the tempo ratio
seek_samples_unscaled(t, bpm, lands_below) ==
    (t * SampleRate) \div TicksPerSecond

\* seek: (position_seconds / (tempo / 120.0) * TARGET_SAMPLE_RATE) as u64 for
\* a position of t ticks. The cast truncates; the f64 quotient and product
\* are rounded, so a value that is a whole number k >= 1 in exact arithmetic
\* may land just below k and be truncated to k - 1 (lands_below)
seek_samples(t, bpm, lands_below) ==
    LET num == t * 120 * SampleRate
        den == bpm * TicksPerSecond
    IN  IF lands_below /\ num % den = 0 /\ num \div den >= 1
        THEN (num \div den) - 1
        ELSE num \div den

\* get_playhead_position: samples * (tempo / 120.0) / TARGET_SAMPLE_RATE
\* seconds, as <<numerator, denominator>>
playhead_position(samples, bpm) == <<samples * bpm, 120 * SampleRate>>

\* AudioGraph::seek
seek(t, lands_below) ==
    /\ playhead_samples' = seek_samples(t, tempo, lands_below)
    /\ call_log' = [NoCall EXCEPT !.op = "seek", !.was = state, !.t = t,
                                  !.tempo = tempo,
                                  !.playhead = seek_samples(t, tempo, lands_below)]
    /\ UNCHANGED <<state, stream_playing, capturing, clip_vars, recorder_vars,
                   ctl_pc, cb_vars, last, mix_vars, lock_vars, probe_vars,
                   next_track_id, api_result, synth_vars, call_log_rest>>

\* AudioGraph::get_playhead_position; after_seek: the last logged call was a
\* seek, and neither the playhead nor the tempo was written since
get_playhead_position ==
    /\ call_log' = [call_log EXCEPT
                       !.op = "get",
                       !.after_seek = /\ call_log.op = "seek"
                                      /\ call_log.playhead = playhead_samples
                                      /\ call_log.tempo = tempo,
                       !.value = playhead_position(playhead_samples, tempo)]
    /\ UNCHANGED <<graph_vars, capturing, clip_vars, recorder_vars, ctl_pc,
                   cb_vars, last, mix_vars, lock_vars, probe_vars, next_track_id,
                   api_result, synth_vars, call_log_rest>>

\* a transport that is Playing, at one of the tempos
InitSeek ==
    /\ state = "Playing"
    /\ playhead_samples = 0
    /\ stream_playing = TRUE
    /\ capturing = FALSE
    /\ clips = << >>
    /\ next_clip_id = 0
    /\ rec_state = "Idle"
    /\ recorded_samples = << >>
    /\ sample_counter = 0
    /\ count_in_bars = DefaultCountIn
    /\ tempo = DefaultTempo
    /\ ctl_pc = "idle"
    /\ cb_pc = "idle"
    /\ cb_is_playing = FALSE
    /\ cb_frames = 0
    /\ cb_frame_idx = 0
    /\ pf_state = "Idle"
    /\ pf_idx = 0
    /\ last = [op |-> "new", result |-> "ok", old |-> 0, clip |-> << >>]
    /\ tracks = MasterOnly
    /\ next_track_id = 1
    /\ effects = [id \in {} |-> "none"]
    /\ next_effect_id = 0
    /\ rt_out = [playhead |-> 0, frames |-> << >>]
    /\ off_out = << >>
    /\ LocksFree
    /\ AuxIdle

NextSeek ==
    \/ \E bpm \in SeekTempoInputs : set_tempo(bpm)
    \/ \E t \in 0..MaxSeekTicks, lands_below \in BOOLEAN : seek(t, lands_below)
    \/ get_playhead_position
    \/ \E n \in 1..MaxFrames : callback_begin(n)
    \/ pf_begin
    \/ pf_act
    \/ callback_end

SpecSeek == InitSeek /\ [][NextSeek]_vars

\* the distance between the argument of the seek and the value returned, and
\* one second, both scaled by TicksPerSecond times the value's denominator
SeekError ==
    Abs(call_log.t * call_log.value[2] - call_log.value[1] * TicksPerSecond)
SeekSecond == TicksPerSecond * call_log.value[2]

\* C26 (as stated): seek(t) followed by get_playhead_position() returns t up
\* to one sample period, at 120 BPM and at every other tempo in [20, 300].
C26_RoundTripWithinOneSample ==
    (call_log.op = "get" /\ call_log.after_seek) =>
        SeekError * SampleRate <= SeekSecond

\* C26 (amended): seek(t) followed by get_playhead_position() returns a
\* value at most t and at most tempo/120 sample periods below it.
C26_RoundTripWithinScaledSample ==
    (call_log.op = "get" /\ call_log.after_seek) =>
        /\ call_log.value[1] * TicksPerSecond <= call_log.t * call_log.value[2]
        /\ SeekError * SampleRate * 120 <= SeekSecond * call_log.tempo

\* a seek at 300 BPM was read back more than one sample period off
C26_Witness ==
    /\ call_log.op = "get"
    /\ call_log.after_seek
    /\ call_log.tempo = MaxTempo
    /\ call_log.t > 0
    /\ SeekError * SampleRate > SeekSecond

----------------------------------------------------------------------------
(* Specification of the tempo: set_tempo with the f64 values of the API,   *)
(* and the project data exported and restored                              *)

\* the arguments of set_tempo in this specification
F64TempoInputs == {10, 140, 500, NaN}

\* export_to_project_data: the tracks in the order of their ids, each with
\* the types of the effects of its chain that the registry holds
RECURSIVE exported_tracks(_)
exported_tracks(ids) ==
    IF ids = {} THEN << >>
    ELSE LET t == CHOOSE x \in ids : \A y \in ids : x <= y
             fx_chain == SelectSeq(tracks[t].fx_chain,
                                   LAMBDA id : id \in DOMAIN effects)
         IN  <<[track_type |-> tracks[t].track_type,
                volume_db |-> tracks[t].volume_db,
                pan |-> tracks[t].pan,
                mute |-> tracks[t].mute,
                solo |-> tracks[t].solo,
                fx_chain |-> [i \in 1..Len(fx_chain) |-> effects[fx_chain[i]]]]>>
             \o exported_tracks(ids \ {t})

\* export_to_project_data: the ProjectData it returns, its tempo the
\* literal 120.0
ProjectData ==
    [tempo |-> 120, tracks |-> exported_tracks(DOMAIN tracks)]

\* AudioGraph::export_to_project_data; the log keeps the data and the tempo
\* of the recorder at the export
export_to_project_data ==
    /\ ctl_pc = "idle"
    /\ call_log' = [NoCall EXCEPT !.op = "export", !.tempo = tempo,
                                  !.value = ProjectData]
    /\ UNCHANGED <<graph_vars, capturing, clip_vars, recorder_vars, ctl_pc,
                   cb_vars, last, mix_vars, lock_vars, probe_vars, next_track_id,
                   api_result, synth_vars, call_log_rest>>

\* restore_from_project_data of the data the last export returned
restore_exported ==
    /\ call_log.op = "export"
    /\ restore_from_project_data(call_log.value)

NextProject ==
    \/ \E bpm \in F64TempoInputs : set_tempo(bpm)
    \/ next_track_id <= MaxTrackIds /\ create_track("midi")
    \/ export_to_project_data
    \/ restore_exported
    \/ \E project \in ProjectInputs : restore_from_project_data(project)

SpecProject == InitTracks /\ [][NextProject]_vars

\* C27: in every reachable state the recorder tempo is within [20, 300] BPM,
\* whether it was set by set_tempo or by restore_from_project_data, so
\* samples_per_beat and samples_per_bar are never zero.
C27_TempoInRange ==
    /\ tempo >= MinTempo
    /\ tempo <= MaxTempo
    /\ SamplesPerBeat(tempo) > 0
    /\ SamplesPerBar(tempo) > 0

\* C30: for every tempo T in [20, 300] set before export_to_project_data,
\* restore_from_project_data of the exported data leaves the recorder tempo
\* equal to T.
C30_ExportRestoreKeepsTempo ==
    [][(restore_exported /\ call_log.tempo >= MinTempo
        /\ call_log.tempo <= MaxTempo) => tempo' = call_log.tempo]_vars

----------------------------------------------------------------------------
(* Specification of the project duration and the length of the offline     *)
(* render: projects of placed audio and MIDI clips, rendered for a duration *)

\* seconds are counted in ticks here, TicksPerFrame to the sample period
TicksPerFrame == 2
Second == SampleRate * TicksPerFrame
\* the durations render_offline is called with besides the project's own
MaxRenderTicks == 5

\* a TimelineClip: start_time, the optional play duration and the clip's
\* duration_seconds
TimelineClip(start_time, duration, duration_seconds) ==
    [start_time |-> start_time, duration |-> duration,
     clip |-> [duration_seconds |-> duration_seconds]]

\* a TimelineMidiClip: start_time and the clip's duration_samples
TimelineMidiClip(start_time, duration_samples) ==
    [start_time |-> start_time, clip |-> [duration_samples |-> duration_samples]]

\* MidiClip::duration_seconds
MidiClip_duration_seconds(clip) == clip.duration_samples * TicksPerFrame

\* Option::unwrap_or
unwrap_or(option, default) == IF option = << >> THEN default ELSE option[1]

\* calculate_project_duration: the loop over the audio clips of a track
RECURSIVE audio_clips_max_end(_, _)
audio_clips_max_end(audio_clips, max_end_time) ==
    IF audio_clips = << >> THEN max_end_time
    ELSE LET clip == Head(audio_clips)
             clip_end == clip.start_time
                         + unwrap_or(clip.duration, clip.clip.duration_seconds)
         IN  audio_clips_max_end(Tail(audio_clips),
                                 IF clip_end > max_end_time THEN clip_end
                                 ELSE max_end_time)

\* calculate_project_duration: the loop over the MIDI clips of a track
RECURSIVE midi_clips_max_end(_, _)
midi_clips_max_end(placed, max_end_time) ==
    IF placed = << >> THEN max_end_time
    ELSE LET clip == Head(placed)
             clip_end == clip.start_time + MidiClip_duration_seconds(clip.clip)
         IN  midi_clips_max_end(Tail(placed),
                                IF clip_end > max_end_time THEN clip_end
                                ELSE max_end_time)

\* calculate_project_duration: the loop over the tracks
RECURSIVE tracks_max_end(_, _)
tracks_max_end(ids, max_end_time) ==
    IF ids = {} THEN max_end_time
    ELSE LET t == CHOOSE x \in ids : \A y \in ids : x <= y
             after_audio == audio_clips_max_end(tracks[t].audio_clips,
                                                max_end_time)
             after_midi == IF t \in DOMAIN track_midi_clips
                           THEN midi_clips_max_end(track_midi_clips[t],
                                                   after_audio)
                           ELSE after_audio
         IN  tracks_max_end(ids \ {t}, after_midi)

\* (mutant) calculate_project_duration without the tail
calculate_project_duration_no_tail == tracks_max_end(DOMAIN tracks, 0)

\* AudioGraph::calculate_project_duration
calculate_project_duration == tracks_max_end(DOMAIN tracks, 0) + Second

\* render_offline: (duration_seconds * sample_rate as f64) as usize
total_frames(duration_seconds) == (duration_seconds * SampleRate) \div Second

\* render_offline: the frame loop, which pushes the left and the right
\* sample of every frame to the output (the mix is silent: the clips of this
\* specification carry no samples)
RECURSIVE render_offline_output(_, _, _)
render_offline_output(frame_idx, frames, output) ==
    IF frame_idx >= frames THEN output
    ELSE render_offline_output(frame_idx + 1, frames, output \o <<0, 0>>)

\* AudioGraph::render_offline called with a duration; the log keeps the
\* duration and the sample vector returned
render_offline_for(duration_seconds) ==
    /\ call_log' = [NoCall EXCEPT
                       !.op = "render", !.t = duration_seconds,
                       !.value = render_offline_output(
                                     0, total_frames(duration_seconds), << >>)]
    /\ UNCHANGED <<graph_vars, capturing, clip_vars, recorder_vars, ctl_pc,
                   cb_vars, last, mix_vars, lock_vars, probe_vars, next_track_id,
                   api_result, synth_vars, call_log_rest>>

\* the placements of the projects of this specification
AudioPlacementInputs ==
    {TimelineClip(start_time, duration, duration_seconds) :
        start_time \in {0, 4}, duration \in {<< >>, <<1>>, <<7>>},
        duration_seconds \in {2, 4}}
MidiPlacementInputs ==
    {TimelineMidiClip(start_time, duration_samples) :
        start_time \in {0, 5}, duration_samples \in {1, 4}}

\* a project of an audio track of up to two clips and a MIDI track of up to
\* one clip
InitDuration ==
    /\ state = "Stopped"
    /\ playhead_samples = 0
    /\ stream_playing = FALSE
    /\ capturing = FALSE
    /\ clips = << >>
    /\ next_clip_id = 0
    /\ rec_state = "Idle"
    /\ recorded_samples = << >>
    /\ sample_counter = 0
    /\ count_in_bars = DefaultCountIn
    /\ tempo = DefaultTempo
    /\ ctl_pc = "idle"
    /\ cb_pc = "idle"
    /\ cb_is_playing = FALSE
    /\ cb_frames = 0
    /\ cb_frame_idx = 0
    /\ pf_state = "Idle"
    /\ pf_idx = 0
    /\ last = [op |-> "new", result |-> "ok", old |-> 0, clip |-> << >>]
    /\ \E audio_clips \in UNION {[1..n -> AudioPlacementInputs] : n \in 0..2} :
           tracks = MasterOnly @@ (1 :> NewTrack("Audio", audio_clips))
                    @@ (2 :> NewTrack("Midi", << >>))
    /\ next_track_id = 3
    /\ effects = [id \in {} |-> "none"]
    /\ next_effect_id = 0
    /\ rt_out = [playhead |-> 0, frames |-> << >>]
    /\ off_out = << >>
    /\ LocksFree
    /\ RecorderUntouched
    /\ api_result = "ok"
    /\ voices = NewVoices
    /\ cb_playhead = 0
    /\ MeterIdle
    /\ midi_heap = [a \in 1..MaxAddrs |-> << >>]
    /\ midi_clips = << >>
    /\ \E placed \in UNION {[1..n -> MidiPlacementInputs] : n \in 0..1} :
           track_midi_clips = (2 :> placed)
    /\ midi_cb = [pc |-> "idle", midi_clips_snapshot |-> << >>,
                  track_snapshots |-> [t \in {} |-> << >>],
                  taken |-> [t \in {} |-> << >>], seen |-> << >>, edited |-> FALSE]
    /\ midi_call = [pc |-> "idle", addr |-> 0, pending |-> << >>,
                    synced |-> << >>]
    /\ fx_trace = << >>
    /\ call_log = NoCall
    /\ mutexes = NoOwners
    /\ midi_rec = MidiRecorder_new

NextDuration ==
    \E duration_seconds \in (0..MaxRenderTicks) \cup {calculate_project_duration} :
        render_offline_for(duration_seconds)

SpecDuration == InitDuration /\ [][NextDuration]_vars

\* the ends of the placed clips of all tracks: start_time plus the
\* placement's duration if set, else the clip's natural length
ClipEnds ==
    UNION {{tracks[t].audio_clips[i].start_time
              + (IF tracks[t].audio_clips[i].duration # << >>
                 THEN tracks[t].audio_clips[i].duration[1]
                 ELSE tracks[t].audio_clips[i].clip.duration_seconds) :
            i \in DOMAIN tracks[t].audio_clips} : t \in DOMAIN tracks}
    \cup
    UNION {{track_midi_clips[t][i].start_time
              + track_midi_clips[t][i].clip.duration_samples * TicksPerFrame :
            i \in DOMAIN track_midi_clips[t]} : t \in DOMAIN track_midi_clips}

\* C29: calculate_project_duration returns the maximum, over the audio and
\* MIDI clips of all tracks, of start_time + effective duration, plus exactly
\* one second; for a project with no clips it returns one second; and
\* render_offline(d) returns exactly 2 * floor(d * sample rate) samples.
C29_DurationIsMaxEndPlusTail ==
    /\ ClipEnds = {} => calculate_project_duration = Second
    /\ ClipEnds # {} =>
          /\ calculate_project_duration - Second \in ClipEnds
          /\ \A e \in ClipEnds : e <= calculate_project_duration - Second
    /\ call_log.op = "render" =>
          \E k \in 0..call_log.t :
              /\ k * Second <= call_log.t * SampleRate
              /\ call_log.t * SampleRate < (k + 1) * Second
              /\ Len(call_log.value) = 2 * k

\* a project whose last end is that of an audio clip cut short by its
\* placement, with a MIDI clip beside it, was rendered for its duration, a
\* whole number of frames and a half
C29_Witness ==
    /\ call_log.op = "render"
    /\ call_log.t = calculate_project_duration
    /\ call_log.t % TicksPerFrame # 0
    /\ call_log.value # << >>
    /\ track_midi_clips[2] # << >>
    /\ \E i \in DOMAIN tracks[1].audio_clips :
           LET c == tracks[1].audio_clips[i]
           IN  /\ c.duration # << >>
               /\ c.duration[1] < c.clip.duration_seconds
               /\ c.start_time + c.duration[1] + Second = call_log.t

----------------------------------------------------------------------------
(* Specification of the signal stages of one frame: the project of two     *)
(* audio tracks with its gains, pans and FX chains set, and frames of the  *)
(* callback traced stage by stage                                          *)

\* what process_sample returns for a track in the traced frame
SynthSampleInputs == {0, 3}
\* the effects added to the chains in this specification
StageEffectInputs == {"compressor", "limiter"}
\* effects are added to the chains up to this many
MaxStageEffects == 2

\* one stage of a frame: the signal it received and the signal it passed on
Stage(name, in, out) ==
    [stage |-> name, in |-> in, out |-> out, effect_id |-> -1,
     peak |-> <<0, 0>>]

\* the effects of a chain as stages
fx_stages(fx_chain, lr) ==
    LET steps == fx_chain_steps(fx_chain, lr, 1, {})
    IN  [i \in 1..Len(steps) |->
            [Stage("fx", steps[i].in, steps[i].out) EXCEPT
                !.effect_id = steps[i].effect_id]]

\* the signal after the last stage of a sequence, lr when it is empty
last_out(stages, lr) ==
    IF stages = << >> THEN lr ELSE stages[Len(stages)].out

\* (mutant) the track's FX chain run on the summed samples, before the
\* volume and the pan
track_stages_fx_first(snap, playhead_frame, synth_sample) ==
    LET clip == audio_clips_frame(snap.audio_clips, playhead_frame)
        sum == <<clip[1] + synth_sample, clip[2] + synth_sample>>
        fx == fx_stages(snap.fx_chain, sum)
        fx_out == last_out(fx, sum)
        vol == <<fx_out[1] * snap.volume_gain, fx_out[2] * snap.volume_gain>>
        pan == <<vol[1] * snap.pan_left, vol[2] * snap.pan_right>>
    IN  <<Stage("clips", <<0, 0>>, clip), Stage("synth", clip, sum)>>
        \o fx
        \o <<Stage("volume", fx_out, vol), Stage("pan", vol, pan),
             [Stage("peak", pan, pan) EXCEPT
                 !.peak = <<Max(0, Abs(pan[1])), Max(0, Abs(pan[2]))>>],
             Stage("bus", pan, pan)>>

\* callback: the statements of the track loop for a track that passed the
\* gate, in program order: the clips, the synthesizer, the volume, the pan,
\* the FX chain, the peak entry, the accumulation to the mix bus
track_stages(snap, playhead_frame, synth_sample) ==
    LET clip == audio_clips_frame(snap.audio_clips, playhead_frame)
        sum == <<clip[1] + synth_sample, clip[2] + synth_sample>>
        vol == <<sum[1] * snap.volume_gain, sum[2] * snap.volume_gain>>
        pan == <<vol[1] * snap.pan_left, vol[2] * snap.pan_right>>
        fx == fx_stages(snap.fx_chain, pan)
        fx_out == last_out(fx, pan)
    IN  <<Stage("clips", <<0, 0>>, clip), Stage("synth", clip, sum),
          Stage("volume", sum, vol), Stage("pan", vol, pan)>>
        \o fx
        \o <<[Stage("peak", fx_out, fx_out) EXCEPT
                 !.peak = <<Max(0, Abs(fx_out[1])), Max(0, Abs(fx_out[2]))>>],
             Stage("bus", fx_out, fx_out)>>

\* callback: the statements of the master section in program order: the
\* volume, the pan, the master FX chain, the limiter, the master peak
master_stages(bus, master_snap) ==
    LET vol == <<bus[1] * master_snap.volume_gain, bus[2] * master_snap.volume_gain>>
        pan == <<vol[1] * master_snap.pan_left, vol[2] * master_snap.pan_right>>
        fx == fx_stages(master_snap.fx_chain, pan)
        fx_out == last_out(fx, pan)
        limited == Limiter_process_frame(fx_out)
    IN  <<Stage("volume", bus, vol), Stage("pan", vol, pan)>>
        \o fx
        \o <<Stage("limiter", fx_out, limited),
             [Stage("peak", limited, limited) EXCEPT
                 !.peak = <<Max(0, Abs(limited[1])), Max(0, Abs(limited[2]))>>]>>

\* callback: one frame of the loop while Playing, traced: the stages of
\* every track that passed the gate, the mix bus, the stages of the master
staged_frame(playhead_frame, synth_sample) ==
    /\ state = "Playing"
    /\ stream_playing
    /\ LET mixed == {t \in NonMasterIds :
                        ~track_skipped(TrackSnapshot(t), has_solo)}
           lines == [t \in mixed |->
                        track_stages(TrackSnapshot(t), playhead_frame,
                                     synth_sample)]
           contrib == [t \in NonMasterIds |->
                          IF t \in mixed THEN last_out(lines[t], <<0, 0>>)
                          ELSE <<0, 0>>]
           bus == mix_sum(contrib, NonMasterIds)
       IN  fx_trace' = <<[frame |-> playhead_frame, synth |-> synth_sample,
                          snaps |-> [t \in DOMAIN tracks |-> TrackSnapshot(t)],
                          tracks |-> lines, bus |-> bus,
                          master |-> master_stages(bus, TrackSnapshot(MasterId))]>>
    /\ UNCHANGED <<graph_vars, capturing, clip_vars, recorder_vars, ctl_pc,
                   cb_vars, last, mix_vars, lock_vars, probe_vars, next_track_id,
                   api_result, synth_vars, fx_trace_rest>>

NextStages ==
    \/ /\ fx_trace = << >>
       /\ \/ \E t \in {MasterId, 2} : \E db \in VolumeInputs : set_track_volume(t, db)
          \/ \E pan \in PanInputs : set_track_pan(2, pan)
          \/ \E mute \in BOOLEAN : set_track_mute(1, mute)
          \/ \E t \in {MasterId, 2} : \E type \in StageEffectInputs :
                 next_effect_id < MaxStageEffects /\ add_effect_to_track(t, type)
          \/ \E playhead_frame \in 1..MaxPlayhead :
                 \E synth_sample \in SynthSampleInputs :
                    staged_frame(playhead_frame, synth_sample)
    \/ /\ fx_trace # << >>
       /\ fx_trace' = << >>
       /\ UNCHANGED <<graph_vars, capturing, clip_vars, recorder_vars, ctl_pc,
                      cb_vars, last, mix_vars, lock_vars, probe_vars,
                      next_track_id, api_result, synth_vars, fx_trace_rest>>

SpecStages == InitMix /\ [][NextStages]_vars

\* the names of the stages of a sequence
StageNames(stages) == [i \in 1..Len(stages) |-> stages[i].stage]
\* the effects of a chain that the registry holds, in list order
HeldEffects(fx_chain) == SelectSeq(fx_chain, LAMBDA id : id \in DOMAIN effects)
\* every stage of a sequence received what the stage before it passed on
Chained(stages) ==
    \A i \in 2..Len(stages) : stages[i].in = stages[i - 1].out
\* stages first..first + Len(held) - 1 are the effects held, in list order
EffectsInOrder(stages, first, held) ==
    \A k \in 1..Len(held) :
        /\ stages[first + k - 1].stage = "fx"
        /\ stages[first + k - 1].effect_id = held[k]
        /\ stages[first + k - 1].out =
               Effect_process_frame(effects[held[k]], stages[first + k - 1].in)

\* C31: within each frame the stages run in a fixed order: for an audible
\* track the clip and synth samples are summed, then the track gain, then
\* the track pan, then the track's effects in list order, each receiving the
\* output of the one before, then the track peak is taken and the result is
\* added to the mix bus; for the master the gain and the pan are applied to
\* the mix-bus sum, then the master FX chain in list order, then the
\* limiter, then the master peak is taken.
C31_StagesInOrder ==
    \A r \in DOMAIN fx_trace :
        LET tr == fx_trace[r]
            m == tr.master
            mheld == HeldEffects(tr.snaps[MasterId].fx_chain)
            fresh == \A t \in DOMAIN tr.snaps : tr.snaps[t] = TrackSnapshot(t)
        IN  /\ DOMAIN tr.tracks =
                   {t \in NonMasterIds :
                       ~track_skipped(tr.snaps[t],
                                      \E u \in NonMasterIds : tr.snaps[u].soloed)}
            /\ \A t \in DOMAIN tr.tracks :
                   LET st == tr.tracks[t]
                       held == HeldEffects(tr.snaps[t].fx_chain)
                       snap == tr.snaps[t]
                       n == Len(st)
                   IN  /\ n = 6 + Len(held)
                       /\ StageNames(SubSeq(st, 1, 4))
                              = <<"clips", "synth", "volume", "pan">>
                       /\ StageNames(SubSeq(st, n - 1, n)) = <<"peak", "bus">>
                       /\ Chained(st)
                       /\ st[2].out = <<st[1].out[1] + tr.synth,
                                        st[1].out[2] + tr.synth>>
                       /\ st[3].out = <<st[3].in[1] * snap.volume_gain,
                                        st[3].in[2] * snap.volume_gain>>
                       /\ st[4].out = <<st[4].in[1] * snap.pan_left,
                                        st[4].in[2] * snap.pan_right>>
                       /\ EffectsInOrder(st, 5, held)
                       /\ st[n - 1].peak = <<Abs(st[n - 1].in[1]),
                                             Abs(st[n - 1].in[2])>>
                       /\ st[n].out = st[n - 1].in
                       /\ tr.synth = 0 /\ fresh =>
                              st[n].out = rt_frame(tr.frame).contrib[t]
            /\ tr.bus = mix_sum([t \in NonMasterIds |->
                                    IF t \in DOMAIN tr.tracks
                                    THEN tr.tracks[t][Len(tr.tracks[t])].out
                                    ELSE <<0, 0>>], NonMasterIds)
            /\ Len(m) = 4 + Len(mheld)
            /\ StageNames(SubSeq(m, 1, 2)) = <<"volume", "pan">>
            /\ StageNames(SubSeq(m, Len(m) - 1, Len(m))) = <<"limiter", "peak">>
            /\ m[1].in = tr.bus
            /\ Chained(m)
            /\ EffectsInOrder(m, 3, mheld)
            /\ m[Len(m) - 1].out = Limiter_process_frame(m[Len(m) - 1].in)
            /\ m[Len(m)].peak = <<Abs(m[Len(m) - 1].out[1]),
                                  Abs(m[Len(m) - 1].out[2])>>
            /\ tr.synth = 0 /\ fresh => m[Len(m)].out = rt_frame(tr.frame).out

\* a frame in which track 2, its gain raised, ran a compressor and then a
\* limiter, each changing the signal, and the master limiter cut the sum
C31_Witness ==
    \E r \in DOMAIN fx_trace :
        /\ 2 \in DOMAIN fx_trace[r].tracks
        /\ LET st == fx_trace[r].tracks[2]
                m == fx_trace[r].master
           IN  /\ Len(st) = 8
               /\ st[3].out # st[3].in
               /\ effects[st[5].effect_id] = "compressor"
               /\ effects[st[6].effect_id] = "limiter"
               /\ st[5].out # st[5].in
               /\ st[6].out # st[6].in
               /\ m[Len(m) - 1].out # m[Len(m) - 1].in

----------------------------------------------------------------------------
(* Specification of whole runs of the callback between transport calls: a  *)
(* buffer is rendered from the read of the state to the return, with the   *)
(* transport Playing, Paused or Stopped while the stream still runs        *)

\* (mutant) the callback advancing the playhead whatever state it read
callback_playhead_always_advances(is_playing, n) == playhead_samples + n

\* the playhead the callback leaves: when the state it loaded is not Playing
\* it returns before the playhead is read, otherwise it advances it by n
callback_playhead(is_playing, n) ==
    IF is_playing THEN playhead_samples + n ELSE playhead_samples

\* one run of the callback for a buffer of n frames with the recorder Idle
\* and no transport call in between, from the load of the state to the
\* return: when the state is not Playing every frame is what
\* process_frame(in, false) returns; when it is Playing current_playhead is
\* loaded once and the frames are mixed
callback(n) ==
    /\ ctl_pc \in {"idle", "pause", "stop"}
    /\ cb_pc = "idle"
    /\ stream_playing
    /\ rec_state = "Idle"
    /\ state = "Playing" => /\ playhead_samples + n <= MaxPlayhead
                            /\ sample_counter + n <= MaxCounter
    /\ IF state = "Playing"
       THEN LET run == playing_buffer(n, metronome_enabled)
            IN  /\ rt_out' = [playhead |-> playhead_samples,
                              frames |-> run.frames]
                /\ out_buf' = [data |-> run.data, met |-> run.met,
                               enabled |-> metronome_enabled]
                /\ peaks' = run.peaks
                /\ sample_counter' = sample_counter + n
       ELSE /\ out_buf' =
                  [data |-> [i \in 1..n |->
                               <<metronome_output(sample_counter,
                                                  metronome_enabled),
                                 metronome_output(sample_counter,
                                                  metronome_enabled)>>],
                   met |-> [i \in 1..n |->
                              metronome_output(sample_counter,
                                               metronome_enabled)],
                   enabled |-> metronome_enabled]
            /\ UNCHANGED <<rt_out, peaks, sample_counter>>
    /\ playhead_samples' = callback_playhead(state = "Playing", n)
    /\ call_log' = [NoCall EXCEPT !.op = "callback", !.was = state,
                                  !.started = (state = "Playing"),
                                  !.playhead = playhead_samples, !.t = n]
    /\ UNCHANGED <<state, stream_playing, capturing, clip_vars, rec_state,
                   recorded_samples, count_in_bars, tempo, ctl_pc, cb_vars, last,
                   tracks, effects, next_effect_id, off_out, lock_vars,
                   probe_vars, next_track_id, api_result, synth_vars,
                   metronome_enabled, twin, midi_vars, fx_trace, mutexes,
                   midi_rec>>

NextBuffer ==
    \/ transport_play
    \/ pause_begin
    \/ pause_finish
    \/ stop_begin
    \/ stop_finish
    \/ \E enabled \in BOOLEAN : set_metronome_enabled(enabled)
    \/ \E db \in VolumeInputs : set_track_volume(2, db)
    \/ \E n \in 1..MaxFrames : callback(n)

SpecBuffer == InitMeter /\ [][NextBuffer]_vars

\* C32: a callback that runs with the transport Playing for a buffer of N
\* frames, no seek or stop intervening, mixes frame i (0 <= i < N) at
\* timeline sample p + i, p being the playhead at the start of the buffer,
\* and leaves the playhead at p + N; a callback that runs with the
\* transport Stopped or Paused leaves the playhead unchanged and writes
\* only the metronome signal to the output.
C32_BufferFollowsPlayhead ==
    [][\A n \in 1..MaxFrames : callback(n) =>
          IF state = "Playing"
          THEN /\ Len(rt_out'.frames) = n
               /\ Len(out_buf'.data) = n
               /\ \A i \in 0..(n - 1) :
                      /\ rt_out'.frames[i + 1].frame = playhead_samples + i
                      /\ rt_out'.frames[i + 1].out =
                             rt_frame(playhead_samples + i).out
                      /\ out_buf'.data[i + 1] =
                             <<rt_frame(playhead_samples + i).out[1]
                                   + out_buf'.met[i + 1],
                               rt_frame(playhead_samples + i).out[2]
                                   + out_buf'.met[i + 1]>>
               /\ playhead_samples' = playhead_samples + n
          ELSE /\ playhead_samples' = playhead_samples
               /\ rt_out' = rt_out
               /\ Len(out_buf'.data) = n
               /\ \A i \in 1..n :
                      out_buf'.data[i] =
                          <<metronome_output(sample_counter, metronome_enabled),
                            metronome_output(sample_counter, metronome_enabled)>>
    ]_vars

\* a buffer was played, which moved the playhead by its length, and the
\* next buffer was rendered while Paused or Stopped, the metronome sounding
C32_Witness ==
    /\ call_log.op = "callback" /\ ~call_log.started
    /\ call_log.was \in {"Paused", "Stopped"}
    /\ Len(rt_out.frames) >= 1
    /\ rt_out.frames[1].out # <<0, 0>>
    /\ call_log.playhead = rt_out.playhead + Len(rt_out.frames)
    /\ playhead_samples = call_log.playhead
    /\ out_buf.data # << >> /\ out_buf.data[1] # <<0, 0>>

----------------------------------------------------------------------------
(* Specification of a playback pass over a MIDI clip: the clip is on track *)
(* 1, the transport plays from the start of the timeline and the callback  *)
(* runs buffer after buffer, of any lengths                                *)

\* the pass is followed up to this sample of the timeline
MaxPassFrames == 5
\* the clips of the pass hold up to this many events
MaxClipEvents == 2
\* duration_samples of the clips of the pass
PassClipDuration == 2
\* the timeline samples the clip of the pass starts at
ClipStartInputs == {0, 1}
\* the events the clips of the pass are made of: a note starting with the
\* clip or inside it, ending inside it, at its exact end or past its end
MidiEventInputs ==
    {[timestamp_samples |-> 0, type |-> "NoteOn", note |-> 60],
     [timestamp_samples |-> 1, type |-> "NoteOn", note |-> 60],
     [timestamp_samples |-> 1, type |-> "NoteOff", note |-> 60],
     [timestamp_samples |-> 2, type |-> "NoteOff", note |-> 60],
     [timestamp_samples |-> 3, type |-> "NoteOff", note |-> 60]}
\* the event lists of the pass, ordered by timestamp as MidiClip keeps them
MidiEventLists ==
    {es \in UNION {[1..k -> MidiEventInputs] : k \in 1..MaxClipEvents} :
        \A i \in 1..(Len(es) - 1) :
            es[i].timestamp_samples <= es[i + 1].timestamp_samples}

\* the events of a clip that fall on a frame, in the order of the clip,
\* as entries of the dispatch log: k is the event's place in the clip
RECURSIVE events_at(_, _, _, _)
events_at(events, k, frame_in_clip, playhead_frame) ==
    IF k > Len(events) THEN << >>
    ELSE (IF events[k].timestamp_samples = frame_in_clip
          THEN <<[frame |-> playhead_frame, k |-> k, event |-> events[k]]>>
          ELSE << >>)
         \o events_at(events, k + 1, frame_in_clip, playhead_frame)

\* (mutant) the end boundary of the clip tested with <
midi_clip_frame_open_end(placed, playhead_frame) ==
    IF /\ playhead_frame >= placed.start
       /\ playhead_frame < placed.start + placed.duration_samples
    THEN events_at(placed.events, 1, playhead_frame - placed.start,
                   playhead_frame)
    ELSE << >>

\* callback: what one MIDI clip of the track sends to the synth manager in
\* the frame at playhead_frame
midi_clip_frame(placed, playhead_frame) ==
    IF /\ playhead_frame >= placed.start
       /\ playhead_frame <= placed.start + placed.duration_samples
    THEN events_at(placed.events, 1, playhead_frame - placed.start,
                   playhead_frame)
    ELSE << >>

\* callback: the events sent for track t in frames first..last of a buffer
RECURSIVE midi_frames(_, _, _)
midi_frames(t, first, until) ==
    IF first > until THEN << >>
    ELSE (IF track_skipped(TrackSnapshot(t), has_solo) THEN << >>
          ELSE midi_clip_frame(track_midi_clips[t][1], first))
         \o midi_frames(t, first + 1, until)

\* one run of the callback while Playing: the events of the buffer's
\* frames are sent to the synth of track 1, then the playhead advances
midi_pass_buffer(n) ==
    /\ state = "Playing"
    /\ stream_playing
    /\ playhead_samples + n <= MaxPassFrames
    /\ fx_trace' = fx_trace \o midi_frames(1, playhead_samples,
                                           playhead_samples + n - 1)
    /\ playhead_samples' = playhead_samples + n
    /\ UNCHANGED <<state, stream_playing, capturing, clip_vars, recorder_vars,
                   ctl_pc, cb_vars, last, mix_vars, lock_vars, probe_vars,
                   next_track_id, api_result, synth_vars, fx_trace_rest>>

\* play() on a project whose MIDI track holds one clip
InitMidiPass ==
    /\ state = "Playing"
    /\ playhead_samples = 0
    /\ stream_playing = TRUE
    /\ capturing = FALSE
    /\ clips = << >>
    /\ next_clip_id = 0
    /\ rec_state = "Idle"
    /\ recorded_samples = << >>
    /\ sample_counter = 0
    /\ count_in_bars = DefaultCountIn
    /\ tempo = DefaultTempo
    /\ ctl_pc = "idle"
    /\ cb_pc = "idle"
    /\ cb_is_playing = FALSE
    /\ cb_frames = 0
    /\ cb_frame_idx = 0
    /\ pf_state = "Idle"
    /\ pf_idx = 0
    /\ last = [op |-> "new", result |-> "ok", old |-> 0, clip |-> << >>]
    /\ tracks = MasterOnly @@ (1 :> NewTrack("Midi", << >>))
    /\ next_track_id = 2
    /\ effects = [id \in {} |-> "none"]
    /\ next_effect_id = 0
    /\ rt_out = [playhead |-> 0, frames |-> << >>]
    /\ off_out = << >>
    /\ LocksFree
    /\ RecorderUntouched
    /\ api_result = "ok"
    /\ voices = NewVoices
    /\ cb_playhead = 0
    /\ MeterIdle
    /\ midi_heap = [a \in 1..MaxAddrs |-> << >>]
    /\ midi_clips = << >>
    /\ \E start \in ClipStartInputs : \E es \in MidiEventLists :
           track_midi_clips =
               (1 :> <<[start |-> start, duration_samples |-> PassClipDuration,
                        events |-> es]>>)
    /\ midi_cb = [pc |-> "idle", midi_clips_snapshot |-> << >>,
                  track_snapshots |-> [t \in {} |-> << >>],
                  taken |-> [t \in {} |-> << >>], seen |-> << >>,
                  edited |-> FALSE]
    /\ midi_call = [pc |-> "idle", addr |-> 0, pending |-> << >>,
                    synced |-> << >>]
    /\ fx_trace = << >>
    /\ call_log = NoCall
    /\ mutexes = NoOwners
    /\ midi_rec = MidiRecorder_new

NextMidiPass == \E n \in 1..MaxFrames : midi_pass_buffer(n)

SpecMidiPass == InitMidiPass /\ [][NextMidiPass]_vars

\* the clip of the pass, and whether the pass has run past its end
PassClip == track_midi_clips[1][1]
PassIsOver == playhead_samples > PassClip.start + PassClip.duration_samples
\* how many times event k of the clip was sent
TimesSent(k) == Cardinality({i \in DOMAIN fx_trace : fx_trace[i].k = k})

\* C33: during uninterrupted playback that starts at or before a MIDI
\* clip's start and runs past its end, the track audible, every event of
\* the clip with timestamp <= duration_samples is dispatched to the track's
\* synth exactly once, in non-decreasing timestamp order, note-offs at the
\* exact clip end included, however the pass is divided into buffers; so
\* every note-on dispatched from the clip is followed by the dispatch of
\* its note-off.
C33_EventsDispatchedOnce ==
    /\ \A k \in DOMAIN PassClip.events : TimesSent(k) <= 1
    /\ \A i \in DOMAIN fx_trace :
           /\ fx_trace[i].event = PassClip.events[fx_trace[i].k]
           /\ fx_trace[i].frame =
                  PassClip.start + fx_trace[i].event.timestamp_samples
    /\ \A i, j \in DOMAIN fx_trace :
           i < j => /\ fx_trace[i].event.timestamp_samples
                          <= fx_trace[j].event.timestamp_samples
                    /\ fx_trace[i].k < fx_trace[j].k
    /\ PassIsOver =>
           /\ \A k \in DOMAIN PassClip.events :
                  TimesSent(k) =
                      IF PassClip.events[k].timestamp_samples
                             <= PassClip.duration_samples
                      THEN 1 ELSE 0
           /\ \A i \in DOMAIN fx_trace :
                  fx_trace[i].event.type = "NoteOn" =>
                      \A k \in DOMAIN PassClip.events :
                          (/\ k > fx_trace[i].k
                           /\ PassClip.events[k].type = "NoteOff"
                           /\ PassClip.events[k].note = fx_trace[i].event.note
                           /\ PassClip.events[k].timestamp_samples
                                  <= PassClip.duration_samples)
                          => \E j \in DOMAIN fx_trace :
                                 j > i /\ fx_trace[j].k = k

\* a pass over a clip that starts after the pass began, split into buffers
\* so that the note-on and the note-off at the exact clip end fell into
\* different buffers, has sent both
C33_Witness ==
    /\ PassIsOver
    /\ PassClip.start = 1
    /\ Len(fx_trace) = 2
    /\ fx_trace[1].event.type = "NoteOn"
    /\ fx_trace[2].event.type = "NoteOff"
    /\ fx_trace[2].event.timestamp_samples = PassClip.duration_samples
    /\ fx_trace[2].frame = PassClip.start + PassClip.duration_samples

----------------------------------------------------------------------------
(* The capture buffer under interleavings of the recording calls with the *)
(* callback (specification Spec)                                          *)

\* C34: under every interleaving of start_recording and stop_recording
\* with the audio callback the capture buffer grows only in frames
\* processed while the recorder state is Recording: the buffer is empty
\* throughout CountingIn, so no clip holds a pair captured before the most
\* recent start_recording or before its count-in finished.
C34_CaptureOnlyWhileRecording ==
    rec_state = "CountingIn" => recorded_samples = << >>

\* C35: if stop() is invoked while a callback that observed the transport
\* as Playing is still rendering its buffer, then once both have finished
\* the playhead is 0 and the transport is Stopped: the callback's
\* end-of-buffer advance cannot move the playhead of a stopped transport
\* away from 0.
C35_StoppedPlayheadIsZero ==
    (last.op = "stop" /\ state = "Stopped" /\ ctl_pc = "idle" /\ cb_pc = "idle")
        => playhead_samples = 0

----------------------------------------------------------------------------
(* Specification of the mutexes: the audio callback, the MIDI-driver       *)
(* callback and one call of the control thread at a time take and release  *)
(* the mutexes in the order of their code; the project has the master      *)
(* track, track 1 and one effect                                           *)

\* the mutexes of one track each
TrackMutexes == {"track0", "track1"}
\* the mutexes of the engine
Mutexes ==
    {"graph", "track_manager", "effect_manager", "effect1", "synth_manager",
     "midi_recorder", "rec_state", "recorded_samples", "count_in_bars",
     "tempo", "time_signature", "clips", "midi_clips", "next_clip_id",
     "input_manager", "master_limiter", "event_callback", "audio_clips"}
        \cup TrackMutexes

\* lock(m), the steps of body, then the drop of the guard
Hold(m, body) == <<<<"lock", m>>>> \o body \o <<<<"unlock", m>>>>
\* a guard dropped before the next lock is taken
Lock1(m) == Hold(m, << >>)

\* Recorder::process_frame in a frame that ends the count-in, and in a
\* frame that records
process_frame_script ==
    Lock1("rec_state") \o Lock1("tempo") \o Lock1("time_signature")
        \o Lock1("count_in_bars") \o Lock1("rec_state")
    \o Lock1("rec_state") \o Lock1("tempo") \o Lock1("time_signature")
        \o Lock1("recorded_samples")

\* the callback when the transport is not Playing: two frames
idle_callback_script ==
    Lock1("input_manager") \o SubSeq(process_frame_script, 1, 10)
    \o Lock1("input_manager") \o SubSeq(process_frame_script, 11, 18)

\* (mutant) the callback keeping the track registry locked over the frame
\* loop
playing_callback_script_holds_registry ==
    Lock1("clips") \o Lock1("midi_clips") \o Lock1("tempo")
    \o Hold("track_manager",
            Lock1("track0") \o Lock1("track1")
            \o Lock1("synth_manager") \o Lock1("synth_manager")
            \o Hold("effect_manager", Lock1("effect1"))
            \o Lock1("input_manager")
            \o SubSeq(process_frame_script, 11, 18)
            \o Hold("effect_manager", Lock1("effect1"))
            \o Lock1("master_limiter")
            \o Lock1("track1") \o Lock1("track0"))

\* the callback when the transport is Playing, for one frame in which a
\* MIDI event of track 1 falls: the snapshots, the frame, the peaks
playing_callback_script ==
    Lock1("clips") \o Lock1("midi_clips") \o Lock1("tempo")
    \o Hold("track_manager", Lock1("track0") \o Lock1("track1"))
    \o Lock1("synth_manager") \o Lock1("synth_manager")
    \o Hold("effect_manager", Lock1("effect1"))
    \o Lock1("input_manager")
    \o SubSeq(process_frame_script, 11, 18)
    \o Hold("effect_manager", Lock1("effect1"))
    \o Lock1("master_limiter")
    \o Hold("track_manager", Lock1("track1") \o Lock1("track0"))

\* MidiInputManager::start_capture: the closure midir calls per message,
\* with the event callback start_midi_input has set
midi_callback_script ==
    Hold("event_callback", Lock1("midi_recorder"))

\* the calls of the control thread, each under the graph mutex
ControlScripts ==
    [send_track_midi_note_on |->
        Hold("graph",
             Lock1("midi_recorder")
             \o Hold("synth_manager",
                     Hold("track_manager", Lock1("track1"))
                     \o Hold("effect_manager", Lock1("effect1")))),
     add_effect_to_track |->
        Hold("graph",
             Hold("track_manager", Hold("effect_manager", Lock1("track1")))),
     set_effect_parameter |->
        Hold("graph", Hold("effect_manager", Lock1("effect1"))),
     set_track_volume |->
        Hold("graph", Hold("track_manager", Lock1("track1"))),
     move_clip_to_track |->
        Hold("graph",
             Hold("track_manager", Hold("clips", Lock1("track1")))),
     stop_midi_recording |->
        Hold("graph",
             Hold("midi_recorder",
                  Hold("track_manager", Lock1("track0") \o Lock1("track1"))
                  \o Hold("midi_clips", Lock1("next_clip_id"))
                  \o Hold("track_manager", Lock1("track1")))),
     start_recording |->
        Hold("graph",
             Lock1("input_manager")
             \o Hold("rec_state",
                     Lock1("recorded_samples") \o Lock1("count_in_bars"))
             \o Lock1("rec_state")),
     stop_recording |->
        Hold("graph",
             Hold("rec_state", Lock1("recorded_samples"))
             \o Lock1("input_manager")
             \o Hold("clips", Lock1("next_clip_id"))
             \o Lock1("audio_clips")),
     transport_stop |->
        Hold("graph", Lock1("synth_manager")),
     save_project |->
        Hold("graph",
             Hold("track_manager",
                  Hold("effect_manager",
                       Lock1("track0")
                       \o Hold("track1", Lock1("effect1"))
                       \o Lock1("clips")))
             \o Lock1("audio_clips")),
     load_project |->
        Hold("graph",
             Lock1("synth_manager")
             \o Hold("audio_clips",
                     Lock1("synth_manager")
                     \o Hold("track_manager",
                             Hold("effect_manager",
                                  Lock1("track0") \o Lock1("track1")))
                     \o Lock1("tempo")
                     \o Hold("track_manager",
                             Hold("effect_manager", Lock1("track0")))
                     \o <<<<"lock", "track_manager">>,
                          <<"lock", "effect_manager">>,
                          <<"unlock", "track_manager">>>>
                     \o Lock1("track_manager")
                     \o Hold("track_manager", Lock1("track1"))
                     \o Hold("track_manager", Lock1("track1"))
                     \o <<<<"unlock", "effect_manager">>>>))]

\* the scripts a thread may start
ScriptsOf(th) ==
    CASE th = "audio" -> {[name |-> "playing_callback",
                           script |-> playing_callback_script, pc |-> 1],
                          [name |-> "idle_callback",
                           script |-> idle_callback_script, pc |-> 1]}
      [] th = "midi" -> {[name |-> "midi_callback",
                          script |-> midi_callback_script, pc |-> 1]}
      [] OTHER -> {[name |-> n, script |-> ControlScripts[n], pc |-> 1] :
                      n \in DOMAIN ControlScripts}

\* the step thread th is at, <<"none", "none">> outside a call
NextStep(th) ==
    LET r == mutexes.run[th]
    IN  IF r.pc > Len(r.script) THEN <<"none", "none">> ELSE r.script[r.pc]

\* a thread enters a call
thread_begin(th) ==
    /\ mutexes.run[th].name = "idle"
    /\ \E r \in ScriptsOf(th) :
           mutexes' = [mutexes EXCEPT !.run[th] = r]
    /\ UNCHANGED <<graph_vars, capturing, clip_vars, recorder_vars, ctl_pc,
                   cb_vars, last, mix_vars, lock_vars, probe_vars,
                   next_track_id, api_result, synth_vars, mutexes_rest>>

\* Mutex::lock returns: the mutex was free
thread_lock(th) ==
    /\ NextStep(th)[1] = "lock"
    /\ mutexes.owner[NextStep(th)[2]] = "none"
    /\ mutexes' = [mutexes EXCEPT !.owner[NextStep(th)[2]] = th,
                                  !.run[th].pc = @ + 1]
    /\ UNCHANGED <<graph_vars, capturing, clip_vars, recorder_vars, ctl_pc,
                   cb_vars, last, mix_vars, lock_vars, probe_vars,
                   next_track_id, api_result, synth_vars, mutexes_rest>>

\* a guard is dropped
thread_unlock(th) ==
    /\ NextStep(th)[1] = "unlock"
    /\ mutexes' = [mutexes EXCEPT !.owner[NextStep(th)[2]] = "none",
                                  !.run[th].pc = @ + 1]
    /\ UNCHANGED <<graph_vars, capturing, clip_vars, recorder_vars, ctl_pc,
                   cb_vars, last, mix_vars, lock_vars, probe_vars,
                   next_track_id, api_result, synth_vars, mutexes_rest>>

\* the call returns
thread_end(th) ==
    /\ mutexes.run[th].name # "idle"
    /\ NextStep(th)[1] = "none"
    /\ mutexes' = [mutexes EXCEPT !.run[th] = NoOwners.run[th]]
    /\ UNCHANGED <<graph_vars, capturing, clip_vars, recorder_vars, ctl_pc,
                   cb_vars, last, mix_vars, lock_vars, probe_vars,
                   next_track_id, api_result, synth_vars, mutexes_rest>>

InitDeadlock ==
    /\ state = "Playing"
    /\ playhead_samples = 0
    /\ stream_playing = TRUE
    /\ capturing = FALSE
    /\ clips = << >>
    /\ next_clip_id = 0
    /\ rec_state = "Idle"
    /\ recorded_samples = << >>
    /\ sample_counter = 0
    /\ count_in_bars = DefaultCountIn
    /\ tempo = DefaultTempo
    /\ ctl_pc = "idle"
    /\ cb_pc = "idle"
    /\ cb_is_playing = FALSE
    /\ cb_frames = 0
    /\ cb_frame_idx = 0
    /\ pf_state = "Idle"
    /\ pf_idx = 0
    /\ last = [op |-> "new", result |-> "ok", old |-> 0, clip |-> << >>]
    /\ tracks = MasterOnly @@ (1 :> NewTrack("Midi", << >>))
    /\ next_track_id = 2
    /\ effects = [id \in {} |-> "none"]
    /\ next_effect_id = 0
    /\ rt_out = [playhead |-> 0, frames |-> << >>]
    /\ off_out = << >>
    /\ LocksFree
    /\ RecorderUntouched
    /\ api_result = "ok"
    /\ voices = NewVoices
    /\ cb_playhead = 0
    /\ MeterIdle
    /\ MidiIdle
    /\ fx_trace = << >>
    /\ call_log = NoCall
    /\ mutexes = [NoOwners EXCEPT !.owner = [m \in Mutexes |-> "none"]]
    /\ midi_rec = MidiRecorder_new

NextDeadlock ==
    \E th \in Threads :
        \/ thread_begin(th)
        \/ thread_lock(th)
        \/ thread_unlock(th)
        \/ thread_end(th)

SpecDeadlock == InitDeadlock /\ [][NextDeadlock]_vars

\* thread a is blocked in Mutex::lock on a mutex that thread b owns
WaitsFor(a, b) ==
    /\ NextStep(a)[1] = "lock"
    /\ mutexes.owner[NextStep(a)[2]] = b
\* the mutexes thread th owns
Owned(th) == {m \in Mutexes : mutexes.owner[m] = th}

\* C36: no interleaving of the audio callback, the MIDI-driver callback
\* and a control-thread call (the control calls being serialized by the
\* graph mutex) reaches a deadlock: the mutexes of the track registry, the
\* tracks, the effect registry, the effects, the synth manager, the MIDI
\* recorder and the recorder state are never awaited in a cycle, and no
\* thread waits for the mutex of one track while it holds that of another.
C36_NoDeadlock ==
    /\ \A a \in Threads : ~WaitsFor(a, a)
    /\ \A a, b \in Threads : ~(a # b /\ WaitsFor(a, b) /\ WaitsFor(b, a))
    /\ \A a, b, c \in Threads :
           ~(WaitsFor(a, b) /\ WaitsFor(b, c) /\ WaitsFor(c, a))
    /\ \A th \in Threads :
           (NextStep(th)[1] = "lock" /\ NextStep(th)[2] \in TrackMutexes)
               => Owned(th) \cap TrackMutexes = {}

\* send_track_midi_note_on owns the synth manager and waits for the track
\* registry, which the callback owns while it waits for the mutex of a
\* track; the MIDI-driver callback waits for the MIDI recorder
C36_Witness ==
    /\ mutexes.run["control"].name = "send_track_midi_note_on"
    /\ mutexes.owner["synth_manager"] = "control"
    /\ WaitsFor("control", "audio")
    /\ NextStep("control")[2] = "track_manager"
    /\ NextStep("audio")[1] = "lock" /\ NextStep("audio")[2] \in TrackMutexes
    /\ mutexes.run["midi"].name = "midi_callback"

----------------------------------------------------------------------------
(* Specification of move_clip_to_track: the timeline holds three clips, and *)
(* the registry the master, an audio, a MIDI and a group track              *)

\* the clip ids and track ids the model passes to the call
MoveClipIdInputs == 0..3
MoveTrackIdInputs == 0..4

\* Vec::remove and Vec::insert at a zero-based index
Vec_remove(v, idx) == SubSeq(v, 1, idx) \o SubSeq(v, idx + 2, Len(v))
Vec_insert(v, idx, x) == SubSeq(v, 1, idx) \o <<x>> \o SubSeq(v, idx + 1, Len(v))
\* the TimelineClip of the global timeline with this id
TimelineClipOf(clip_id) == [id |-> clip_id, start |-> 0, samples |-> << >>]

\* (mutant) move_clip_to_track returning the error without putting the
\* clip back
move_clip_no_put_back(timeline, registry, track_id, clip_id) ==
    LET clip_idx == position(timeline, clip_id) - 1
        removed == Vec_remove(timeline, clip_idx)
    IN  IF clip_idx = -1
        THEN [clips |-> timeline, tracks |-> registry, result |-> "err"]
        ELSE IF track_id \in DOMAIN registry
             THEN IF registry[track_id].track_type \notin {"Audio", "Group"}
                  THEN [clips |-> removed, tracks |-> registry, result |-> "err"]
                  ELSE [clips |-> removed,
                        tracks |-> [registry EXCEPT ![track_id].audio_clips =
                                       Append(@, TimelineClipOf(clip_id))],
                        result |-> "ok"]
             ELSE [clips |-> removed, tracks |-> registry, result |-> "err"]

\* move_clip_to_track: the timeline and the registry it leaves, and what it
\* returns
move_clip(timeline, registry, track_id, clip_id) ==
    LET clip_idx == position(timeline, clip_id) - 1
        removed == Vec_remove(timeline, clip_idx)
    IN  IF clip_idx = -1
        THEN [clips |-> timeline, tracks |-> registry, result |-> "err"]
        ELSE IF track_id \in DOMAIN registry
             THEN IF registry[track_id].track_type \notin {"Audio", "Group"}
                  THEN [clips |-> Vec_insert(removed, clip_idx, clip_id),
                        tracks |-> registry, result |-> "err"]
                  ELSE [clips |-> removed,
                        tracks |-> [registry EXCEPT ![track_id].audio_clips =
                                       Append(@, TimelineClipOf(clip_id))],
                        result |-> "ok"]
             ELSE [clips |-> Vec_insert(removed, clip_idx, clip_id),
                   tracks |-> registry, result |-> "err"]

\* a call of move_clip_to_track(track_id, clip_id)
move_clip_to_track(track_id, clip_id) ==
    /\ LET r == move_clip(clips, tracks, track_id, clip_id)
       IN  /\ clips' = r.clips
           /\ tracks' = r.tracks
           /\ api_result' = r.result
           /\ call_log' = [op |-> "move_clip_to_track", result |-> r.result,
                           track_id |-> track_id, clip_id |-> clip_id,
                           clip_idx |-> position(clips, clip_id) - 1]
    /\ UNCHANGED <<graph_vars, capturing, next_clip_id, recorder_vars, ctl_pc,
                   cb_vars, last, effects, next_effect_id, rt_out, off_out,
                   lock_vars, probe_vars, next_track_id, synth_vars,
                   call_log_rest>>

\* three clips were added to the timeline (add_clip), and an audio, a MIDI
\* and a group track were created
InitMoveClip ==
    /\ state = "Stopped"
    /\ playhead_samples = 0
    /\ stream_playing = FALSE
    /\ capturing = FALSE
    /\ clips = <<0, 1, 2>>
    /\ next_clip_id = 3
    /\ rec_state = "Idle"
    /\ recorded_samples = << >>
    /\ sample_counter = 0
    /\ count_in_bars = DefaultCountIn
    /\ tempo = DefaultTempo
    /\ ctl_pc = "idle"
    /\ cb_pc = "idle"
    /\ cb_is_playing = FALSE
    /\ cb_frames = 0
    /\ cb_frame_idx = 0
    /\ pf_state = "Idle"
    /\ pf_idx = 0
    /\ last = [op |-> "new", result |-> "ok", old |-> 0, clip |-> << >>]
    /\ tracks = MasterOnly @@ (1 :> NewTrack("Audio", << >>))
                    @@ (2 :> NewTrack("Midi", << >>))
                    @@ (3 :> NewTrack("Group", << >>))
    /\ next_track_id = 4
    /\ effects = [id \in {} |-> "none"]
    /\ next_effect_id = 0
    /\ rt_out = [playhead |-> 0, frames |-> << >>]
    /\ off_out = << >>
    /\ LocksFree
    /\ AuxIdle

NextMoveClip ==
    \E track_id \in MoveTrackIdInputs : \E clip_id \in MoveClipIdInputs :
        move_clip_to_track(track_id, clip_id)

SpecMoveClip == InitMoveClip /\ [][NextMoveClip]_vars

----------------------------------------------------------------------------
(* Specification of the MIDI recorder: recordings are started and stopped,  *)
(* events arrive, the playhead is moved by seek, and the tempo and the      *)
(* quantize grid of the recorder are set                                    *)

\* events the recorder may hold
MaxRecEvents == 2
\* SAMPLE_RATE of midi_recorder.rs
MidiRecorder_SAMPLE_RATE == 48000

\* the events that arrive, and the arguments of set_tempo and set_quantize
RecEventInputs == {NoteOn(60, 1), NoteOn(60, 3), NoteOff(60, 3)}
RecTempoInputs == {10, 60, DefaultTempo, 500}
QuantizeInputs == {0, 4, 8, 16, 32}

\* MidiRecorder::start_recording, at this value of the shared playhead
MidiRecorder_start_recording(r, playhead) ==
    IF r.state # "Idle"
    THEN [rec |-> r, result |-> "Already recording"]
    ELSE [rec |-> [r EXCEPT !.start_timestamp = playhead,
                            !.events = << >>,
                            !.state = "Recording"],
          result |-> "ok"]

\* MidiRecorder::stop_recording: Ok(None), Ok(Some(clip)) or the error
MidiRecorder_stop_recording(r) ==
    IF r.state # "Recording"
    THEN [rec |-> r, result |-> "Not recording"]
    ELSE [rec |-> [r EXCEPT !.state = "Idle"],
          result |-> IF r.events = << >> THEN "none" ELSE "some"]

\* (mutant) record_event subtracting the start timestamp from every event
MidiRecorder_record_event_unclamped(r, event) ==
    IF r.state # "Recording"
    THEN r
    ELSE [r EXCEPT !.events =
             Append(@, [event EXCEPT !.timestamp_samples =
                                         @ - r.start_timestamp])]

\* MidiRecorder::record_event
MidiRecorder_record_event(r, event) ==
    IF r.state # "Recording"
    THEN r
    ELSE LET relative_timestamp ==
                 IF event.timestamp_samples >= r.start_timestamp
                 THEN event.timestamp_samples - r.start_timestamp
                 ELSE 0
         IN  [r EXCEPT !.events =
                 Append(@, [event EXCEPT !.timestamp_samples =
                                             relative_timestamp])]

\* MidiRecorder::update_quantize_grid
update_quantize_grid(r) ==
    LET samples_per_beat == (60 * MidiRecorder_SAMPLE_RATE) \div r.tempo
    IN  [r EXCEPT !.quantize_grid_samples = samples_per_beat \div 4]

\* MidiRecorder::set_tempo
MidiRecorder_set_tempo(r, bpm) ==
    update_quantize_grid(
        [r EXCEPT !.tempo = IF bpm < MinTempo THEN MinTempo
                            ELSE IF bpm > MaxTempo THEN MaxTempo ELSE bpm])

\* MidiRecorder::set_quantize
MidiRecorder_set_quantize(r, note_division) ==
    IF note_division = 0
    THEN [r EXCEPT !.quantize_grid_samples = 0]
    ELSE update_quantize_grid(r)

\* what a call of the recorder leaves unchanged
midi_rec_frame ==
    UNCHANGED <<graph_vars, capturing, clip_vars, recorder_vars, ctl_pc,
                cb_vars, last, mix_vars, lock_vars, probe_vars, next_track_id,
                api_result, synth_vars, meter_vars, midi_vars, fx_trace,
                mutexes>>

midi_start_recording ==
    /\ midi_rec' = MidiRecorder_start_recording(midi_rec, playhead_samples).rec
    /\ call_log' = [op |-> "midi_start_recording",
                    result |-> MidiRecorder_start_recording(
                                   midi_rec, playhead_samples).result]
    /\ midi_rec_frame

midi_stop_recording ==
    /\ midi_rec' = MidiRecorder_stop_recording(midi_rec).rec
    /\ call_log' = [op |-> "midi_stop_recording",
                    result |-> MidiRecorder_stop_recording(midi_rec).result]
    /\ midi_rec_frame

midi_record_event(event) ==
    /\ Len(midi_rec.events) < MaxRecEvents
    /\ midi_rec' = MidiRecorder_record_event(midi_rec, event)
    /\ call_log' = [op |-> "record_event", result |-> "ok"]
    /\ midi_rec_frame

midi_set_tempo(bpm) ==
    /\ midi_rec' = MidiRecorder_set_tempo(midi_rec, bpm)
    /\ call_log' = [op |-> "midi_set_tempo", result |-> "ok",
                    was |-> midi_rec.quantize_grid_samples]
    /\ midi_rec_frame

midi_set_quantize(note_division) ==
    /\ midi_rec' = MidiRecorder_set_quantize(midi_rec, note_division)
    /\ call_log' = [op |-> "set_quantize", result |-> "ok",
                    note_division |-> note_division]
    /\ midi_rec_frame

NextMidiRec ==
    \/ midi_start_recording
    \/ midi_stop_recording
    \/ \E event \in RecEventInputs : midi_record_event(event)
    \/ \E bpm \in RecTempoInputs : midi_set_tempo(bpm)
    \/ \E d \in QuantizeInputs : midi_set_quantize(d)
    \/ \E t \in 0..MaxSeekTicks : seek(t, FALSE)

SpecMidiRec == InitTracks /\ [][NextMidiRec]_vars

\* C38: start_recording while Recording fails and leaves the recorder as it
\* was; a successful start takes the playhead as the start timestamp, which
\* nothing changes while the recording lasts; stop_recording while Idle
\* fails with "Not recording"; record_event stores an event only while
\* Recording, at the end of the list, with the timestamp
\* max(0, event timestamp - start timestamp); a successful stop_recording
\* leaves the state Idle and returns a clip exactly when an event was
\* recorded.
C38_MidiRecorderCalls ==
    [][/\ midi_start_recording =>
              IF midi_rec.state = "Recording"
              THEN /\ call_log'.result = "Already recording"
                   /\ midi_rec' = midi_rec
              ELSE /\ call_log'.result = "ok"
                   /\ midi_rec'.state = "Recording"
                   /\ midi_rec'.start_timestamp = playhead_samples
                   /\ midi_rec'.events = << >>
       /\ (midi_rec.state = "Recording" /\ midi_rec'.state = "Recording")
              => midi_rec'.start_timestamp = midi_rec.start_timestamp
       /\ midi_stop_recording =>
              IF midi_rec.state = "Idle"
              THEN /\ call_log'.result = "Not recording"
                   /\ midi_rec' = midi_rec
              ELSE /\ midi_rec'.state = "Idle"
                   /\ call_log'.result \in {"none", "some"}
                   /\ call_log'.result = "some" <=> midi_rec.events # << >>
       /\ \A event \in RecEventInputs :
              midi_record_event(event) =>
                  IF midi_rec.state = "Recording"
                  THEN LET d == event.timestamp_samples
                                    - midi_rec.start_timestamp
                       IN  midi_rec'.events =
                               Append(midi_rec.events,
                                      [event EXCEPT !.timestamp_samples =
                                           IF d > 0 THEN d ELSE 0])
                  ELSE midi_rec' = midi_rec
      ]_vars

\* a recording that started at playhead 2 took an event of sample 1 and then
\* one of sample 3, and was stopped with a clip
C38_Witness ==
    /\ call_log.op = "midi_stop_recording"
    /\ call_log.result = "some"
    /\ midi_rec.state = "Idle"
    /\ midi_rec.start_timestamp = 2
    /\ Len(midi_rec.events) = 2
    /\ midi_rec.events[1].timestamp_samples = 0
    /\ midi_rec.events[2].timestamp_samples = 1

\* the length in samples of a 1/d note at this tempo: a quarter note is one
\* beat
NoteLength(bpm, d) == (4 * ((60 * MidiRecorder_SAMPLE_RATE) \div bpm)) \div d

\* C39: set_quantize(0) turns quantization off, and it stays off through
\* set_tempo; set_quantize(d) with d in {4, 8, 16, 32} sets the grid to the
\* length of a 1/d note at the current tempo.
C39_QuantizeSelectsGrid ==
    [][/\ \A d \in QuantizeInputs :
              midi_set_quantize(d) =>
                  midi_rec'.quantize_grid_samples =
                      IF d = 0 THEN 0 ELSE NoteLength(midi_rec.tempo, d)
       /\ \A bpm \in RecTempoInputs :
              (midi_set_tempo(bpm) /\ midi_rec.quantize_grid_samples = 0)
                  => midi_rec'.quantize_grid_samples = 0
      ]_vars

----------------------------------------------------------------------------
(* Specification of repeated offline renders of a project whose MIDI track *)
(* holds one clip: render_offline drives the synth of the track, which it  *)
(* shares with the callback and with every other render                    *)

\* the longest render, in frames
MaxOfflineFrames == 4

\* render_offline: the note_on and note_off calls of one frame, in the
\* order of the clip's events
RECURSIVE offline_dispatch(_, _)
offline_dispatch(vs, sent) ==
    IF sent = << >> THEN vs
    ELSE offline_dispatch(
             IF Head(sent).event.type = "NoteOn"
             THEN TrackSynthesizer_note_on(vs, Head(sent).event.note)
             ELSE TrackSynthesizer_note_off(vs, Head(sent).event.note),
             Tail(sent))

\* the sum of f over the indices in ids
RECURSIVE level_sum(_, _)
level_sum(f, ids) ==
    IF ids = {} THEN 0
    ELSE LET i == CHOOSE x \in ids : TRUE
         IN  f[i] + level_sum(f, ids \ {i})

\* TrackSynthesizer::process_sample, the value returned: every active voice
\* whose envelope is not Idle adds its envelope level after the step (the
\* oscillator, the filter and the output gain are taken as unity)
synth_sample_of(vs) ==
    LET after == TrackSynthesizer_process_sample(vs)
    IN  level_sum([i \in DOMAIN vs |-> after[i].level],
                  {i \in DOMAIN vs : vs[i].is_active /\ vs[i].state # "Idle"})

\* render_offline: one frame of the loop for the MIDI track t: the events
\* of the frame are sent to the synth, the synth is processed, and its
\* sample goes through the track's volume, pan and FX chain and through the
\* master; the clip is tested as in the callback (<= at its end)
offline_synth_frame(vs, t, frame_idx) ==
    IF offline_track_skipped(TrackSnapshot(t), has_solo)
    THEN [voices |-> vs,
          out |-> offline_master_frame(<<0, 0>>, TrackSnapshot(MasterId))]
    ELSE LET snap == TrackSnapshot(t)
             played == offline_dispatch(
                           vs, midi_clip_frame(track_midi_clips[t][1], frame_idx))
             synth_sample == synth_sample_of(played)
             vol == <<synth_sample * snap.volume_gain,
                      synth_sample * snap.volume_gain>>
             pan == <<vol[1] * snap.pan_left, vol[2] * snap.pan_right>>
             bus == fx_chain_process(snap.fx_chain, pan)
         IN  [voices |-> TrackSynthesizer_process_sample(played),
              out |-> offline_master_frame(bus, TrackSnapshot(MasterId))]

\* render_offline: frames frame_idx..n_frames - 1, from these voices
RECURSIVE offline_synth_frames(_, _, _, _)
offline_synth_frames(vs, t, frame_idx, n_frames) ==
    IF frame_idx >= n_frames THEN [voices |-> vs, output |-> << >>]
    ELSE LET f == offline_synth_frame(vs, t, frame_idx)
             rest == offline_synth_frames(f.voices, t, frame_idx + 1,
                                          n_frames)
         IN  [voices |-> rest.voices, output |-> <<f.out>> \o rest.output]

\* AudioGraph::render_offline of n_frames frames; repeated: the call
\* before it was a render of the same length
render_offline_synth(n_frames) ==
    /\ LET r == offline_synth_frames(voices, 1, 0, n_frames)
       IN  /\ voices' = r.voices
           /\ off_out' = r.output
           /\ call_log' = [op |-> "render_offline",
                           n_frames |-> n_frames,
                           output |-> r.output,
                           repeated |-> /\ call_log.op = "render_offline"
                                        /\ call_log.n_frames = n_frames,
                           before |-> off_out]
    /\ UNCHANGED <<graph_vars, capturing, clip_vars, recorder_vars, ctl_pc,
                   cb_vars, last, tracks, effects, next_effect_id, rt_out,
                   lock_vars, probe_vars, next_track_id, api_result,
                   cb_playhead, call_log_rest>>

NextRender ==
    \E n_frames \in 1..MaxOfflineFrames : render_offline_synth(n_frames)

SpecRender == InitMidiPass /\ [][NextRender]_vars

\* C40: a render_offline call that follows a render of the same length,
\* with nothing in between, returns the samples that render returned.
C40_RenderIsRepeatable ==
    (call_log.op = "render_offline" /\ call_log.repeated)
        => call_log.output = call_log.before

====
